---- MODULE Spec2Model ----
(***************************************************************************)
(* Identity and session authentication of the workflow platform worker:    *)
(* AuthService (auth.ts), the in-memory Database of users (database.ts)    *)
(* and the auth routes of the Hono app (index.ts).                         *)
(*                                                                         *)
(* Strings that the code inspects character by character (usernames,       *)
(* emails, passwords, display names, roles) are sequences of Unicode code  *)
(* points.  An optional string that is undefined is Undefined; '' is <<>>. *)
(* Requests are asynchronous handlers: every await that separates two      *)
(* accesses to the shared mockUsers array is a point where another         *)
(* request's steps may run, so such a handler is a sequence of steps.      *)
(***************************************************************************)
EXTENDS Integers, Sequences, FiniteSets, TLC

VARIABLES mockUsers, now, pc, call, result, tokens, updateCount, client

vars == <<mockUsers, now, pc, call, result, tokens, updateCount, client>>

(***************************************************************************)
(* Bounds of the model.                                                    *)
(***************************************************************************)
MaxUsers == 4
MaxTicks == 1
MaxDays == 1
MaxTokens == 1
MaxUpdates == 1

Procs == {"p1", "p2"}

(***************************************************************************)
(* String literals of the program, as code points.                         *)
(***************************************************************************)
Undefined == <<-1>>
EmptyStr == <<>>

S_admin == <<97,100,109,105,110>>
S_adminEmail == <<97,100,109,105,110,64,119,111,114,107,102,108,111,119,46,99,111,109>>
S_creator1 == <<99,114,101,97,116,111,114,49>>
S_creator1Email == <<99,114,101,97,116,111,114,49,64,101,120,97,109,112,108,101,46,99,111,109>>
S_user == <<117,115,101,114>>
S_creator == <<99,114,101,97,116,111,114>>
S_advertiser == <<97,100,118,101,114,116,105,115,101,114>>
S_Bearer == <<66,101,97,114,101,114,32>>
S_jwtHeader == <<123,34,97,108,103,34,58,34,72,83,50,53,54,34,44,34,116,121,112,34,58,34,74,87,84,34,125>>

(* Inputs used by the requests of the model. *)
S_alice == <<97,108,105,99,101>>
S_aliceEmail == <<97,108,105,99,101,64,120,46,99,111,109>>
S_bobEmail == <<98,111,98,64,120,46,99,111,109>>
S_Secret123 == <<83,101,99,114,101,116,49,50,51>>
S_abc == <<97,98,99>>
S_cjkName == <<20013,25991,21517>>
S_avatar1 == <<97,49>>
S_avatar2 == <<97,50>>

JWT_SECRET == "JWT_SECRET"
OtherSecret == "other-secret"

TTL == 24 * 60 * 60
MinPasswordLength == 6

(***************************************************************************)
(* TextEncoder.encode: UTF-8 bytes of a string given as its UTF-16 code    *)
(* units.  A high surrogate followed by a low one is one code point of     *)
(* four bytes; any other surrogate is encoded as U+FFFD.                   *)
(***************************************************************************)
IsHighSurrogate(c) == c \in 55296..56319
IsLowSurrogate(c) == c \in 56320..57343

Utf8Char(cp) ==
  IF cp < 128 THEN <<cp>>
  ELSE IF cp < 2048 THEN <<192 + (cp \div 64), 128 + (cp % 64)>>
  ELSE IF IsHighSurrogate(cp) \/ IsLowSurrogate(cp) THEN <<239, 191, 189>>
  ELSE IF cp < 65536
    THEN <<224 + (cp \div 4096), 128 + ((cp \div 64) % 64), 128 + (cp % 64)>>
  ELSE <<240 + (cp \div 262144), 128 + ((cp \div 4096) % 64),
         128 + ((cp \div 64) % 64), 128 + (cp % 64)>>

RECURSIVE TextEncode(_)
TextEncode(s) ==
  IF s = <<>> THEN <<>>
  ELSE IF Len(s) >= 2 /\ IsHighSurrogate(s[1]) /\ IsLowSurrogate(s[2])
    THEN Utf8Char(65536 + (s[1] - 55296) * 1024 + (s[2] - 56320))
           \o TextEncode(SubSeq(s, 3, Len(s)))
  ELSE Utf8Char(Head(s)) \o TextEncode(Tail(s))

(***************************************************************************)
(* btoa / atob on byte strings.  A base64 character is modelled by its     *)
(* 6-bit value 0..63; the replacements of '+', '/' by '-', '_' and the     *)
(* removal of the '=' padding keep that value.                             *)
(***************************************************************************)
RECURSIVE Btoa(_)
Btoa(b) ==
  IF Len(b) = 0 THEN <<>>
  ELSE IF Len(b) = 1 THEN <<b[1] \div 4, (b[1] % 4) * 16>>
  ELSE IF Len(b) = 2 THEN
    <<b[1] \div 4, (b[1] % 4) * 16 + (b[2] \div 16), (b[2] % 16) * 4>>
  ELSE <<b[1] \div 4, (b[1] % 4) * 16 + (b[2] \div 16),
         (b[2] % 16) * 4 + (b[3] \div 64), b[3] % 64>>
       \o Btoa(SubSeq(b, 4, Len(b)))

RECURSIVE Atob(_)
Atob(d) ==
  IF Len(d) < 2 THEN <<>>
  ELSE IF Len(d) = 2 THEN <<d[1] * 4 + (d[2] \div 16)>>
  ELSE IF Len(d) = 3 THEN
    <<d[1] * 4 + (d[2] \div 16), (d[2] % 16) * 16 + (d[3] \div 4)>>
  ELSE <<d[1] * 4 + (d[2] \div 16), (d[2] % 16) * 16 + (d[3] \div 4),
         (d[3] % 4) * 64 + d[4]>>
       \o Atob(SubSeq(d, 5, Len(d)))

(* atob throws on a string whose length without padding is 1 modulo 4. *)
AtobThrows(d) == Len(d) % 4 = 1

(* base64UrlEncode of a string: the UTF-8 bytes, base64url without padding. *)
base64UrlEncode(s) == Btoa(TextEncode(s))

(* base64UrlDecode: atob returns one character per byte (no UTF-8 decoding). *)
base64UrlDecode(d) == Atob(d)

(***************************************************************************)
(* The Database of users (database.ts).  A User row is a record; the       *)
(* seeded rows carry no password_hash property at all.  Balances are in    *)
(* cents.                                                                  *)
(***************************************************************************)
SeedUsers ==
  << [id |-> 1, username |-> S_admin, email |-> S_adminEmail,
      password_hash |-> Undefined, role |-> S_admin, avatar_url |-> Undefined,
      balance |-> 0, total_earnings |-> 0, status |-> "active"],
     [id |-> 2, username |-> S_creator1, email |-> S_creator1Email,
      password_hash |-> Undefined, role |-> S_creator, avatar_url |-> Undefined,
      balance |-> 150050, total_earnings |-> 320075, status |-> "active"] >>

NoUser ==
  [id |-> 0, username |-> <<>>, email |-> <<>>, password_hash |-> Undefined,
   role |-> <<>>, avatar_url |-> Undefined, balance |-> 0, total_earnings |-> 0,
   status |-> "none"]

(* Array.prototype.find: the first of the indices whose element satisfies
   the test, or 0 for null. *)
FirstIndex(hits) ==
  IF hits = {} THEN 0 ELSE CHOOSE i \in hits : \A j \in hits : i <= j

getUserById(users, id) ==
  LET i == FirstIndex({k \in 1..Len(users) : users[k].id = id})
  IN IF i = 0 THEN NoUser ELSE users[i]

getUserByEmail(users, email) ==
  LET i == FirstIndex({k \in 1..Len(users) : users[k].email = email})
  IN IF i = 0 THEN NoUser ELSE users[i]

(* A lookup that compares the wrong column. *)
getUserByUsernameWrongColumn(users, username) == getUserByEmail(users, username)

getUserByUsername(users, username) ==
  LET i == FirstIndex({k \in 1..Len(users) : users[k].username = username})
  IN IF i = 0 THEN NoUser ELSE users[i]

(* createUser numbering the new row with the array length. *)
createUserFromLength(users, userData) == [userData EXCEPT !.id = Len(users)]

(* createUser: the row that is pushed; its id is the array length plus one. *)
createUser(users, userData) == [userData EXCEPT !.id = Len(users) + 1]

(* updateUser that keeps of the old row only its id. *)
updateUserNoSpread(users, id, updates) ==
  LET i == FirstIndex({k \in 1..Len(users) : users[k].id = id})
  IN IF i = 0 THEN users
     ELSE [users EXCEPT ![i] =
             [f \in DOMAIN users[i] |->
                IF f \in DOMAIN updates THEN updates[f]
                ELSE IF f = "id" THEN id ELSE NoUser[f]]]

(* updateUser: the array after the update (unchanged when the id is absent). *)
updateUser(users, id, updates) ==
  LET i == FirstIndex({k \in 1..Len(users) : users[k].id = id})
  IN IF i = 0 THEN users
     ELSE [users EXCEPT ![i] =
             [f \in DOMAIN users[i] |->
                IF f \in DOMAIN updates THEN updates[f] ELSE users[i][f]]]

(***************************************************************************)
(* Session tokens (auth.ts).  A token string is modelled by the list of    *)
(* its '.'-separated segments.  The JSON text of the payload keeps the     *)
(* numbers and the characters of the string values (none of the model's    *)
(* characters is escaped by JSON.stringify): the payload segment is the    *)
(* record of the numbers and of the base64url encoding of each string.     *)
(* HMAC-SHA256 is an ideal keyed hash: the signature of data under a key   *)
(* is the pair of both, so distinct (key, data) give distinct signatures.  *)
(***************************************************************************)
NoPayload ==
  [userId |-> 0, username |-> <<>>, email |-> <<>>, role |-> <<>>, exp |-> 0, iat |-> 0]

hmacSign(data, secret) == [key |-> secret, msg |-> data]

EncodedHeader == base64UrlEncode(S_jwtHeader)

(* A string property of the payload in the encoded JSON text; JSON.stringify
   leaves out a property whose value is undefined. *)
EncodeField(v) == IF v = Undefined THEN Undefined ELSE base64UrlEncode(v)

DecodeField(d) == IF d = Undefined THEN Undefined ELSE base64UrlDecode(d)

FieldThrows(d) == d # Undefined /\ AtobThrows(d)

EncodeJson(payload) ==
  [userId |-> payload.userId,
   username |-> EncodeField(payload.username),
   email |-> EncodeField(payload.email),
   role |-> EncodeField(payload.role),
   exp |-> payload.exp, iat |-> payload.iat]

DecodeJson(seg) ==
  [userId |-> seg.userId,
   username |-> DecodeField(seg.username),
   email |-> DecodeField(seg.email),
   role |-> DecodeField(seg.role),
   exp |-> seg.exp, iat |-> seg.iat]

signJWT(payload, secret) ==
  LET data == <<EncodedHeader, EncodeJson(payload)>>
  IN <<data[1], data[2], hmacSign(data, secret)>>

(* verifyJWT without the comparison of the signature. *)
verifyJWTNoSignature(token, secret) ==
  IF Len(token) # 3 THEN [threw |-> TRUE, payload |-> NoPayload]
  ELSE IF \/ FieldThrows(token[2].username) \/ FieldThrows(token[2].email)
          \/ FieldThrows(token[2].role)
    THEN [threw |-> TRUE, payload |-> NoPayload]
  ELSE [threw |-> FALSE, payload |-> DecodeJson(token[2])]

(* verifyJWT: the parsed payload, or threw = TRUE where the code throws. *)
verifyJWT(token, secret) ==
  IF Len(token) # 3 THEN [threw |-> TRUE, payload |-> NoPayload]
  ELSE IF token[3] # hmacSign(<<token[1], token[2]>>, secret)
    THEN [threw |-> TRUE, payload |-> NoPayload]
  ELSE IF \/ FieldThrows(token[2].username) \/ FieldThrows(token[2].email)
          \/ FieldThrows(token[2].role)
    THEN [threw |-> TRUE, payload |-> NoPayload]
  ELSE [threw |-> FALSE, payload |-> DecodeJson(token[2])]

(* generateToken: Date.now() is read once for exp and once more for iat. *)
generateToken(user, tExp, tIat) ==
  signJWT([userId |-> user.id, username |-> user.username, email |-> user.email,
           role |-> user.role, exp |-> tExp + TTL, iat |-> tIat], JWT_SECRET)

(* verifyToken without its try/catch: an error of verifyJWT leaves it. *)
verifyTokenNoCatch(token, t) ==
  LET r == verifyJWT(token, JWT_SECRET)
  IN IF r.threw THEN [kind |-> "throw", payload |-> NoPayload]
     ELSE IF r.payload.exp < t THEN [kind |-> "null", payload |-> NoPayload]
     ELSE [kind |-> "payload", payload |-> r.payload]

(* verifyToken: kind is "payload", or "null" for the null result; the
   try/catch turns every throw of verifyJWT into null.  A kind "throw"
   stands for an error that leaves the function. *)
verifyToken(token, t) ==
  LET r == verifyJWT(token, JWT_SECRET)
  IN IF r.threw THEN [kind |-> "null", payload |-> NoPayload]
     ELSE IF r.payload.exp < t THEN [kind |-> "null", payload |-> NoPayload]
     ELSE [kind |-> "payload", payload |-> r.payload]

(* verifyPermission without the requiredRoles test. *)
verifyPermissionNoRoleCheck(users, token, requiredRoles, t) ==
  LET v == verifyToken(token, t)
      user == getUserById(users, v.payload.userId)
  IN IF v.kind = "throw" THEN [kind |-> "throw", user |-> NoUser, payload |-> NoPayload]
     ELSE IF v.kind = "null" THEN [kind |-> "null", user |-> NoUser, payload |-> NoPayload]
     ELSE IF user = NoUser \/ user.status # "active"
       THEN [kind |-> "null", user |-> NoUser, payload |-> NoPayload]
     ELSE [kind |-> "ok", user |-> user, payload |-> v.payload]

(* verifyPermission deciding the role by the snapshot in the token. *)
verifyPermissionTokenSnapshot(users, token, requiredRoles, t) ==
  LET v == verifyToken(token, t)
      user == getUserById(users, v.payload.userId)
  IN IF v.kind = "throw" THEN [kind |-> "throw", user |-> NoUser, payload |-> NoPayload]
     ELSE IF v.kind = "null" THEN [kind |-> "null", user |-> NoUser, payload |-> NoPayload]
     ELSE IF user = NoUser \/ user.status # "active"
       THEN [kind |-> "null", user |-> NoUser, payload |-> NoPayload]
     ELSE IF requiredRoles # {} /\ v.payload.role \notin requiredRoles
       THEN [kind |-> "null", user |-> NoUser, payload |-> NoPayload]
     ELSE [kind |-> "ok", user |-> user, payload |-> v.payload]

(* verifyPermission: kind "ok" with the user and payload, or "null"; it has
   no try/catch of its own, so an error of verifyToken would leave it. *)
verifyPermission(users, token, requiredRoles, t) ==
  LET v == verifyToken(token, t)
      user == getUserById(users, v.payload.userId)
  IN IF v.kind = "throw" THEN [kind |-> "throw", user |-> NoUser, payload |-> NoPayload]
     ELSE IF v.kind = "null" THEN [kind |-> "null", user |-> NoUser, payload |-> NoPayload]
     ELSE IF user = NoUser \/ user.status # "active"
       THEN [kind |-> "null", user |-> NoUser, payload |-> NoPayload]
     ELSE IF requiredRoles # {} /\ user.role \notin requiredRoles
       THEN [kind |-> "null", user |-> NoUser, payload |-> NoPayload]
     ELSE [kind |-> "ok", user |-> user, payload |-> v.payload]

(* extractTokenFromHeader with a prefix test that ignores case. *)
extractTokenFromHeaderAnyCase(authHeader) ==
  LET Lower(c) == IF c \in 65..90 THEN c + 32 ELSE c
  IN IF authHeader = Undefined \/ authHeader = <<>> THEN Undefined
     ELSE IF \/ Len(authHeader) < 7
             \/ \E i \in 1..7 : Lower(authHeader[i]) # Lower(S_Bearer[i])
       THEN Undefined
     ELSE SubSeq(authHeader, 8, Len(authHeader))

(* extractTokenFromHeader on a header given as its characters; the token
   characters that follow the prefix are returned (Undefined for null). *)
extractTokenFromHeader(authHeader) ==
  IF authHeader = Undefined \/ authHeader = <<>> THEN Undefined
  ELSE IF Len(authHeader) < 7 \/ SubSeq(authHeader, 1, 7) # S_Bearer THEN Undefined
  ELSE SubSeq(authHeader, 8, Len(authHeader))

(***************************************************************************)
(* Password hashing: the hex SHA-256 digest of the UTF-8 bytes of the      *)
(* password, SHA-256 modelled as an ideal hash (the digest of a byte       *)
(* string is the byte string under a marker, never the empty string).      *)
(***************************************************************************)
DigestMark == 0

hashPassword(password) == <<DigestMark>> \o TextEncode(password)

(* A comparison that lets an account without a hash through. *)
verifyPasswordEmptyHash(password, hashedPassword) ==
  \/ hashedPassword = Undefined \/ hashedPassword = <<>>
  \/ hashPassword(password) = hashedPassword

verifyPassword(password, hashedPassword) == hashPassword(password) = hashedPassword

(***************************************************************************)
(* Input validation helpers of auth.ts.                                    *)
(***************************************************************************)
IsWordChar(c) ==
  \/ c \in 48..57 \/ c \in 65..90 \/ c \in 97..122 \/ c = 95

IsSpace(c) == c \in {9, 10, 11, 12, 13, 32, 160}

(* /^[a-zA-Z0-9_]{3,20}$/ *)
validateUsername(username) ==
  /\ Len(username) >= 3 /\ Len(username) <= 20
  /\ \A i \in 1..Len(username) : IsWordChar(username[i])

(* /^[^\s@]+@[^\s@]+\.[^\s@]+$/ *)
validateEmail(email) ==
  \E i \in 2..Len(email), j \in 4..(Len(email) - 1) :
    /\ email[i] = 64 /\ email[j] = 46 /\ j > i + 1
    /\ \A k \in 1..Len(email) : k # i => (~IsSpace(email[k]) /\ email[k] # 64)

RECURSIVE TrimStart(_)
TrimStart(s) ==
  IF s # <<>> /\ IsSpace(Head(s)) THEN TrimStart(Tail(s)) ELSE s

RECURSIVE TrimEnd(_)
TrimEnd(s) ==
  IF s # <<>> /\ IsSpace(s[Len(s)]) THEN TrimEnd(SubSeq(s, 1, Len(s) - 1)) ELSE s

(* input.trim().replace(/[<>"'&]/g, '') *)
sanitizeInput(input) ==
  LET Keep(c) == c \notin {60, 62, 34, 39, 38}
  IN SelectSeq(TrimEnd(TrimStart(input)), Keep)

(* !x of a string: undefined or '' *)
Falsy(str) == str = Undefined \/ str = <<>>

(***************************************************************************)
(* Requests.  call[p] holds the locals of the request process p runs,      *)
(* result[p] the response of the request p ran last.                       *)
(***************************************************************************)
NoToken == <<>>

NoProfile == [email |-> Undefined, name |-> <<>>, avatar_url |-> Undefined]

Idle ==
  [op |-> "none", username |-> <<>>, email |-> <<>>, password |-> <<>>,
   role |-> <<>>, oauthUser |-> NoProfile, userId |-> 0, avatar_url |-> Undefined,
   counter |-> 0, bodyRole |-> Undefined]

NoResult ==
  [op |-> "none", code |-> 0, field |-> "", reason |-> "", user |-> NoUser,
   token |-> NoToken, payload |-> NoPayload, roles |-> {}]

Response(op, code, field, reason, user, token) ==
  [op |-> op, code |-> code, field |-> field, reason |-> reason, user |-> user,
   token |-> token, payload |-> NoPayload, roles |-> {}]

(* const { password_hash: _, ...userWithoutPassword } = newUser *)
WithoutPassword(user) == [user EXCEPT !.password_hash = Undefined]

(***************************************************************************)
(* The browser side: the AuthState of AuthContext.tsx with its reducer,    *)
(* and the token that ApiClient holds (this.token, mirrored in             *)
(* localStorage).  null is Null for strings and NoUser for a user.         *)
(***************************************************************************)
Null == <<-2>>

initialState ==
  [user |-> NoUser, token |-> Null, isAuthenticated |-> FALSE, isLoading |-> FALSE,
   error |-> Null]

(* An action of the reducer; the payload of an action without one is Null. *)
AuthAction(type, payload) == [type |-> type, payload |-> payload]

(* A reducer whose AUTH_FAILURE leaves the token in the state. *)
authReducerKeepsToken(state, action) ==
  CASE action.type = "AUTH_START" -> [state EXCEPT !.isLoading = TRUE, !.error = Null]
    [] action.type = "AUTH_SUCCESS" ->
         [state EXCEPT !.user = action.payload.user, !.token = action.payload.token,
                       !.isAuthenticated = TRUE, !.isLoading = FALSE, !.error = Null]
    [] action.type = "AUTH_FAILURE" ->
         [state EXCEPT !.user = NoUser, !.isAuthenticated = FALSE,
                       !.isLoading = FALSE, !.error = action.payload]
    [] action.type = "AUTH_LOGOUT" -> initialState
    [] action.type = "UPDATE_USER" -> [state EXCEPT !.user = action.payload]
    [] action.type = "CLEAR_ERROR" -> [state EXCEPT !.error = Null]
    [] OTHER -> state

authReducer(state, action) ==
  CASE action.type = "AUTH_START" -> [state EXCEPT !.isLoading = TRUE, !.error = Null]
    [] action.type = "AUTH_SUCCESS" ->
         [state EXCEPT !.user = action.payload.user, !.token = action.payload.token,
                       !.isAuthenticated = TRUE, !.isLoading = FALSE, !.error = Null]
    [] action.type = "AUTH_FAILURE" ->
         [state EXCEPT !.user = NoUser, !.token = Null, !.isAuthenticated = FALSE,
                       !.isLoading = FALSE, !.error = action.payload]
    [] action.type = "AUTH_LOGOUT" -> initialState
    [] action.type = "UPDATE_USER" -> [state EXCEPT !.user = action.payload]
    [] action.type = "CLEAR_ERROR" -> [state EXCEPT !.error = Null]
    [] OTHER -> state

(* A page that has just been loaded: the reducer in its initial state, the
   token of ApiClient read from localStorage, no request under way. *)
LoadedPage(storedToken) ==
  [state |-> initialState, stored |-> storedToken, pending |-> {}]

(* The store and the requests of the worker after construction. *)
InitWorker ==
  /\ mockUsers = SeedUsers
  /\ now = 0
  /\ pc = [p \in Procs |-> "idle"]
  /\ call = [p \in Procs |-> Idle]
  /\ result = [p \in Procs |-> NoResult]
  /\ tokens = {}
  /\ updateCount = 0

Init ==
  /\ InitWorker
  /\ client = LoadedPage(Null)

(* The wall clock (Date.now() / 1000, floored) advances. *)
Tick ==
  /\ \/ now % TTL < MaxTicks /\ now' = now + 1
     \/ now \div TTL < MaxDays /\ now' = now + TTL
  /\ UNCHANGED <<mockUsers, pc, call, result, tokens, updateCount>>
  /\ UNCHANGED client

(* The request of p ends with response r; its arguments stay visible in
   call[p] (with op "none") until the response is taken. *)
Finish(p, r, args) ==
  /\ pc' = [pc EXCEPT ![p] = "idle"]
  /\ call' = [call EXCEPT ![p] = [args EXCEPT !.op = "none"]]
  /\ result' = [result EXCEPT ![p] = r]

Goto(p, label, locals) ==
  /\ pc' = [pc EXCEPT ![p] = label]
  /\ call' = [call EXCEPT ![p] = locals]
  /\ UNCHANGED result

(* A process starts a request when the response of its last one was taken. *)
Ready(p) == pc[p] = "idle" /\ result[p] = NoResult

(* Requests in flight that may still push a row. *)
Creating == {q \in Procs : call[q].op \in {"register", "oauth"}}

Room == Len(mockUsers) + Cardinality(Creating) < MaxUsers

(***************************************************************************)
(* POST /api/auth/register and AuthService.register.                       *)
(***************************************************************************)
(* A route that ignores the role of the body. *)
RoleIgnored(bodyRole) == S_user

(* const { ..., role = 'user' } = body: the default stands in for a role
   that the body does not have. *)
RoleOrDefault(bodyRole) == IF bodyRole = Undefined THEN S_user ELSE bodyRole

RegisterArgs(username, email, password, role) ==
  [Idle EXCEPT !.op = "register", !.username = username, !.email = email,
               !.password = password, !.role = role]

(* The route's checks and the username lookup of register; the request body
   is drawn from the given sets. *)
RegisterStart(p, usernames, emails, passwords, roles) ==
  /\ Ready(p) /\ Room
  /\ \E username \in usernames, email \in emails, password \in passwords, role \in roles :
       LET args == [RegisterArgs(sanitizeInput(username), sanitizeInput(email), password,
                                 RoleOrDefault(role)) EXCEPT !.bodyRole = role]
       IN IF Falsy(username) \/ Falsy(email) \/ Falsy(password)
            THEN Finish(p, Response("register", 400, "form", "missing", NoUser, NoToken), args)
          ELSE IF ~validateUsername(username)
            THEN Finish(p, Response("register", 400, "username", "format", NoUser, NoToken), args)
          ELSE IF ~validateEmail(email)
            THEN Finish(p, Response("register", 400, "email", "format", NoUser, NoToken), args)
          ELSE IF getUserByUsername(mockUsers, args.username) # NoUser
            THEN Finish(p, Response("register", 400, "username", "exists", NoUser, NoToken), args)
          ELSE Goto(p, "register_email", args)
  /\ UNCHANGED <<mockUsers, now, tokens, updateCount>>
  /\ UNCHANGED client

(* register with the password policy checked before the email lookup. *)
RegisterEmailPasswordFirst(p) ==
  /\ pc[p] = "register_email"
  /\ IF Len(call[p].password) < MinPasswordLength
       THEN Finish(p, Response("register", 400, "password", "weak", NoUser, NoToken), call[p])
     ELSE IF getUserByEmail(mockUsers, call[p].email) # NoUser
       THEN Finish(p, Response("register", 400, "email", "exists", NoUser, NoToken), call[p])
       ELSE Goto(p, "register_create", call[p])
  /\ UNCHANGED <<mockUsers, now, tokens, updateCount>>
  /\ UNCHANGED client

(* The email lookup of register. *)
RegisterEmail(p) ==
  /\ pc[p] = "register_email"
  /\ IF getUserByEmail(mockUsers, call[p].email) # NoUser
       THEN Finish(p, Response("register", 400, "email", "exists", NoUser, NoToken), call[p])
       ELSE Goto(p, "register_create", call[p])
  /\ UNCHANGED <<mockUsers, now, tokens, updateCount>>
  /\ UNCHANGED client

(* The password policy, hashPassword, createUser and generateToken. *)
RegisterCreate(p) ==
  /\ pc[p] = "register_create"
  /\ IF Len(call[p].password) < MinPasswordLength
       THEN /\ Finish(p, Response("register", 400, "password", "weak", NoUser, NoToken),
                      call[p])
            /\ UNCHANGED <<mockUsers, now>>
       ELSE LET newUser ==
                  createUser(mockUsers,
                    [NoUser EXCEPT !.username = call[p].username,
                                   !.email = call[p].email,
                                   !.password_hash = hashPassword(call[p].password),
                                   !.role = call[p].role,
                                   !.status = "active"])
            IN /\ mockUsers' = Append(mockUsers, newUser)
               /\ now' = now
               /\ Finish(p, Response("register", 200, "", "", WithoutPassword(newUser),
                                     generateToken(newUser, now, now)), call[p])
  /\ UNCHANGED <<tokens, updateCount>>
  /\ UNCHANGED client

(***************************************************************************)
(* POST /api/auth/login and AuthService.login.  login reads the store      *)
(* once (getUserByEmail) and works on the row it found.                    *)
(***************************************************************************)
LoginEmails == {S_adminEmail, S_aliceEmail, S_bobEmail}
LoginPasswords == {S_Secret123, S_abc, <<>>}

(* login with the password compared before the status is looked at. *)
loginPasswordFirst(users, email, password, tExp, tIat) ==
  LET user == getUserByEmail(users, email)
  IN IF user = NoUser
       THEN Response("login", 401, "email", "NotFound", NoUser, NoToken)
     ELSE IF ~verifyPassword(password, user.password_hash)
       THEN Response("login", 401, "password", "BadCredential", NoUser, NoToken)
     ELSE IF user.status # "active"
       THEN Response("login", 401, "", "Disabled", NoUser, NoToken)
     ELSE Response("login", 200, "", "", user, generateToken(user, tExp, tIat))

login(users, email, password, tExp, tIat) ==
  LET user == getUserByEmail(users, email)
  IN IF user = NoUser
       THEN Response("login", 401, "email", "NotFound", NoUser, NoToken)
     ELSE IF user.status # "active"
       THEN Response("login", 401, "", "Disabled", NoUser, NoToken)
     ELSE IF ~verifyPassword(password, user.password_hash)
       THEN Response("login", 401, "password", "BadCredential", NoUser, NoToken)
     ELSE Response("login", 200, "", "", user, generateToken(user, tExp, tIat))

Login(p) ==
  /\ Ready(p)
  /\ \E email \in LoginEmails, password \in LoginPasswords :
       LET r == IF Falsy(email) \/ Falsy(password)
                  THEN Response("login", 400, "form", "missing", NoUser, NoToken)
                ELSE IF ~validateEmail(email)
                  THEN Response("login", 400, "email", "format", NoUser, NoToken)
                ELSE login(mockUsers, sanitizeInput(email), password, now, now)
       IN /\ pc' = pc
          /\ call' = [call EXCEPT ![p] = [Idle EXCEPT !.email = sanitizeInput(email),
                                                       !.password = password]]
          /\ result' = [result EXCEPT ![p] = r]
  /\ UNCHANGED <<mockUsers, now, tokens, updateCount>>
  /\ UNCHANGED client

(***************************************************************************)
(* The client takes the response; a token in it is kept for later use.     *)
(***************************************************************************)
Deliver(p) ==
  /\ pc[p] = "idle" /\ result[p] # NoResult
  /\ result' = [result EXCEPT ![p] = NoResult]
  /\ call' = [call EXCEPT ![p] = Idle]
  /\ IF result[p].code = 200 /\ result[p].token # NoToken
       THEN \/ tokens' = tokens
            \/ /\ Cardinality(tokens \cup {result[p].token}) <= MaxTokens
               /\ tokens' = tokens \cup {result[p].token}
            \/ \E t \in tokens : tokens' = (tokens \ {t}) \cup {result[p].token}
       ELSE tokens' = tokens
  /\ UNCHANGED <<mockUsers, now, pc, updateCount>>
  /\ UNCHANGED client

(***************************************************************************)
(* AuthService.verifyPermission, called with any token string: one a       *)
(* client holds, or one made from it without the server's secret.          *)
(***************************************************************************)
AttackerPayload ==
  [userId |-> 1, username |-> S_admin, email |-> S_adminEmail, role |-> S_admin,
   exp |-> 3 * TTL, iat |-> 0]

Resigned(t) == <<t[1], t[2], hmacSign(<<t[1], t[2]>>, OtherSecret)>>

Tampered(t) == <<t[1], [t[2] EXCEPT !.userId = 1, !.exp = 3 * TTL], t[3]>>

(* A token the server issued to a row that the store does not hold any more
   (mockUsers starts again from the seed when the worker restarts). *)
StaleToken ==
  generateToken([NoUser EXCEPT !.id = MaxUsers + 1, !.username = S_alice,
                               !.email = S_aliceEmail, !.role = S_admin,
                               !.status = "active"], 0, 0)

TokenInputs ==
  tokens \cup {Resigned(t) : t \in tokens} \cup {Tampered(t) : t \in tokens}
         \cup {<<t[1], t[2]>> : t \in tokens}
         \cup {signJWT(AttackerPayload, OtherSecret), StaleToken, <<>>}

RoleLists == {{}, {S_admin}, {S_creator, S_admin}}

VerifyPermission(p) ==
  /\ Ready(p)
  /\ \E token \in TokenInputs, requiredRoles \in RoleLists :
       LET r == verifyPermission(mockUsers, token, requiredRoles, now)
       IN result' = [result EXCEPT ![p] =
            [op |-> "verifyPermission", code |-> 0, field |-> "", reason |-> r.kind,
             user |-> r.user, token |-> token, payload |-> r.payload,
             roles |-> requiredRoles]]
  /\ UNCHANGED <<mockUsers, now, pc, call, tokens, updateCount>>
  /\ UNCHANGED client

(***************************************************************************)
(* Operations outside this subsystem change the status or the role of a    *)
(* row through Database.updateUser.                                        *)
(***************************************************************************)
ExternalUpdates ==
  {[status |-> "suspended"], [status |-> "active"], [role |-> S_user], [role |-> S_admin]}

ExternalUpdate ==
  /\ \E i \in 1..Len(mockUsers), updates \in ExternalUpdates :
       /\ mockUsers' = updateUser(mockUsers, mockUsers[i].id, updates)
       /\ mockUsers' # mockUsers
  /\ updateCount < MaxUpdates /\ updateCount' = updateCount + 1
  /\ UNCHANGED <<now, pc, call, result, tokens>>
  /\ UNCHANGED client

(***************************************************************************)
(* POST /api/auth/oauth/:provider and AuthService.oauthRegister.  The      *)
(* provider answers the code exchange and the profile fetches with a       *)
(* profile or with nothing.                                                *)
(***************************************************************************)
Providers == {"github", "google", "gitlab"}

Profiles ==
  { [email |-> S_bobEmail, name |-> <<20013, 32, 25991, 21517>>, avatar_url |-> S_avatar1],
    [email |-> S_creator1Email, name |-> S_creator1, avatar_url |-> S_avatar2],
    [email |-> S_adminEmail, name |-> S_admin, avatar_url |-> Undefined] }

ProviderAnswers ==
  {[ok |-> FALSE, profile |-> NoProfile]} \cup {[ok |-> TRUE, profile |-> pr] : pr \in Profiles}

(* baseName.replace(/[^a-zA-Z0-9_一-龥]/g, '').substring(0, 15) || 'user' *)
CleanName(baseName) ==
  LET Keep(c) == IsWordChar(c) \/ c \in 19968..40869
      kept == SelectSeq(baseName, Keep)
      cut == SubSeq(kept, 1, IF Len(kept) < 15 THEN Len(kept) ELSE 15)
  IN IF cut = <<>> THEN S_user ELSE cut

(* The decimal digits of a positive integer, as characters. *)
RECURSIVE Digits(_)
Digits(n) ==
  IF n < 10 THEN <<48 + n>> ELSE Digits(n \div 10) \o <<48 + (n % 10)>>

(* A status check that lets every row through. *)
AccountDisabledNever(existingUser) == FALSE

(* if (existingUser) { if (existingUser.status !== 'active') ... *)
AccountDisabled(existingUser) ==
  existingUser # NoUser /\ existingUser.status # "active"

(* oauthRegister writing the provider's avatar before it looks at the status. *)
OAuthStartSyncFirst(p, roles, answers) ==
  /\ Ready(p) /\ Room
  /\ \E provider \in Providers, role \in roles, answer \in answers :
       LET oauthUser == answer.profile
           existingUser == getUserByEmail(mockUsers, oauthUser.email)
       IN /\ mockUsers' =
               IF /\ provider \in {"github", "google"} /\ answer.ok
                  /\ AccountDisabled(existingUser)
                  /\ ~Falsy(oauthUser.avatar_url)
                 THEN updateUser(mockUsers, existingUser.id,
                                 [avatar_url |-> oauthUser.avatar_url])
                 ELSE mockUsers
          /\ IF provider \notin {"github", "google"}
               THEN Finish(p, Response("oauth", 400, "", "provider", NoUser, NoToken), Idle)
             ELSE IF ~answer.ok
               THEN Finish(p, Response("oauth", 400, "", "OAuthFailed", NoUser, NoToken), Idle)
             ELSE IF AccountDisabled(existingUser)
               THEN Finish(p, Response("oauth", 401, "", "Disabled", NoUser, NoToken),
                           [Idle EXCEPT !.oauthUser = oauthUser])
             ELSE IF /\ existingUser # NoUser /\ ~Falsy(oauthUser.avatar_url)
                     /\ existingUser.avatar_url # oauthUser.avatar_url
               THEN /\ pc' = [pc EXCEPT ![p] = "oauth_update"]
                    /\ call' = [call EXCEPT ![p] =
                         [Idle EXCEPT !.op = "oauth", !.oauthUser = oauthUser,
                                         !.role = RoleOrDefault(role), !.bodyRole = role,
                                      !.userId = existingUser.id]]
                    /\ UNCHANGED result
             ELSE IF existingUser # NoUser
               THEN Finish(p, Response("oauth", 200, "", "matched", existingUser,
                                       generateToken(existingUser, now, now)),
                           [Idle EXCEPT !.oauthUser = oauthUser])
             ELSE IF oauthUser.name = Undefined
               THEN Finish(p, Response("oauth", 500, "", "ServerError", NoUser, NoToken),
                           [Idle EXCEPT !.oauthUser = oauthUser])
             ELSE /\ pc' = [pc EXCEPT ![p] = "oauth_probe"]
                  /\ call' = [call EXCEPT ![p] =
                       [Idle EXCEPT !.op = "oauth", !.oauthUser = oauthUser,
                                         !.role = RoleOrDefault(role), !.bodyRole = role,
                                    !.username = CleanName(oauthUser.name), !.counter = 1]]
                  /\ UNCHANGED result
  /\ UNCHANGED <<now, tokens, updateCount>>
  /\ UNCHANGED client

(* authenticateWith*, getUserByEmail and the status check on the row found. *)
OAuthStart(p, roles, answers) ==
  /\ Ready(p) /\ Room
  /\ \E provider \in Providers, role \in roles, answer \in answers :
       LET oauthUser == answer.profile
           existingUser == getUserByEmail(mockUsers, oauthUser.email)
       IN IF provider \notin {"github", "google"}
            THEN Finish(p, Response("oauth", 400, "", "provider", NoUser, NoToken), Idle)
          ELSE IF ~answer.ok
            THEN Finish(p, Response("oauth", 400, "", "OAuthFailed", NoUser, NoToken), Idle)
          ELSE IF AccountDisabled(existingUser)
            THEN Finish(p, Response("oauth", 401, "", "Disabled", NoUser, NoToken),
                        [Idle EXCEPT !.oauthUser = oauthUser])
          ELSE IF /\ existingUser # NoUser /\ ~Falsy(oauthUser.avatar_url)
                  /\ existingUser.avatar_url # oauthUser.avatar_url
            THEN /\ pc' = [pc EXCEPT ![p] = "oauth_update"]
                 /\ call' = [call EXCEPT ![p] =
                      [Idle EXCEPT !.op = "oauth", !.oauthUser = oauthUser,
                                         !.role = RoleOrDefault(role), !.bodyRole = role,
                                   !.userId = existingUser.id]]
                 /\ UNCHANGED result
          ELSE IF existingUser # NoUser
            THEN Finish(p, Response("oauth", 200, "", "matched", existingUser,
                                    generateToken(existingUser, now, now)),
                        [Idle EXCEPT !.oauthUser = oauthUser])
          ELSE IF oauthUser.name = Undefined
            THEN Finish(p, Response("oauth", 500, "", "ServerError", NoUser, NoToken),
                        [Idle EXCEPT !.oauthUser = oauthUser])
          ELSE /\ pc' = [pc EXCEPT ![p] = "oauth_probe"]
               /\ call' = [call EXCEPT ![p] =
                    [Idle EXCEPT !.op = "oauth", !.oauthUser = oauthUser,
                                         !.role = RoleOrDefault(role), !.bodyRole = role,
                                 !.username = CleanName(oauthUser.name), !.counter = 1]]
               /\ UNCHANGED result
  /\ UNCHANGED <<mockUsers, now, tokens, updateCount>>
  /\ UNCHANGED client

(* updateUser with the provider's avatar, then generateToken. *)
OAuthUpdate(p) ==
  /\ pc[p] = "oauth_update"
  /\ LET users == updateUser(mockUsers, call[p].userId,
                               [avatar_url |-> call[p].oauthUser.avatar_url])
           existingUser == getUserById(users, call[p].userId)
       IN /\ mockUsers' = users
          /\ now' = now
          /\ Finish(p, Response("oauth", 200, "", "matched", existingUser,
                                generateToken(existingUser, now, now)), call[p])
  /\ updateCount < MaxUpdates /\ updateCount' = updateCount + 1
  /\ UNCHANGED tokens
  /\ UNCHANGED client

(* The loop of generateUniqueUsername with the counter started at 0, so that
   the candidates after the base are base0, base1, ... *)
OAuthProbeFromZero(p) ==
  /\ pc[p] = "oauth_probe"
  /\ IF getUserByUsername(mockUsers, call[p].username) # NoUser
       THEN /\ call' = [call EXCEPT ![p].username =
                          CleanName(call[p].oauthUser.name) \o Digits(call[p].counter - 1),
                        ![p].counter = call[p].counter + 1]
            /\ pc' = pc
       ELSE /\ pc' = [pc EXCEPT ![p] = "oauth_create"]
            /\ call' = call
  /\ UNCHANGED <<mockUsers, now, result, tokens, updateCount>>
  /\ UNCHANGED client

(* The loop of generateUniqueUsername looking every candidate up in the
   rows the store had at start-up instead of the rows it has now. *)
OAuthProbeStale(p) ==
  /\ pc[p] = "oauth_probe"
  /\ IF getUserByUsername(SeedUsers, call[p].username) # NoUser
       THEN /\ call' = [call EXCEPT ![p].username =
                          CleanName(call[p].oauthUser.name) \o Digits(call[p].counter),
                        ![p].counter = call[p].counter + 1]
            /\ pc' = pc
       ELSE /\ pc' = [pc EXCEPT ![p] = "oauth_create"]
            /\ call' = call
  /\ UNCHANGED <<mockUsers, now, result, tokens, updateCount>>
  /\ UNCHANGED client

(* One turn of the loop of generateUniqueUsername: a lookup of the
   candidate; a taken candidate is replaced by cleanName + counter. *)
OAuthProbe(p) ==
  /\ pc[p] = "oauth_probe"
  /\ IF getUserByUsername(mockUsers, call[p].username) # NoUser
       THEN /\ call' = [call EXCEPT ![p].username =
                          CleanName(call[p].oauthUser.name) \o Digits(call[p].counter),
                        ![p].counter = call[p].counter + 1]
            /\ pc' = pc
       ELSE /\ pc' = [pc EXCEPT ![p] = "oauth_create"]
            /\ call' = call
  /\ UNCHANGED <<mockUsers, now, result, tokens, updateCount>>
  /\ UNCHANGED client

(* oauthRegister creating every account with the default role. *)
OAuthCreateDefaultRole(p) ==
  /\ pc[p] = "oauth_create"
  /\ LET newUser ==
             createUser(mockUsers,
               [NoUser EXCEPT !.username = call[p].username,
                              !.email = call[p].oauthUser.email,
                              !.password_hash = <<>>,
                              !.role = S_user,
                              !.avatar_url = call[p].oauthUser.avatar_url,
                              !.status = "active"])
       IN /\ mockUsers' = Append(mockUsers, newUser)
          /\ now' = now
          /\ Finish(p, Response("oauth", 200, "", "created", newUser,
                                generateToken(newUser, now, now)), call[p])
  /\ UNCHANGED <<tokens, updateCount>>
  /\ UNCHANGED client

(* createUser with the generated username, then generateToken. *)
OAuthCreate(p) ==
  /\ pc[p] = "oauth_create"
  /\ LET newUser ==
             createUser(mockUsers,
               [NoUser EXCEPT !.username = call[p].username,
                              !.email = call[p].oauthUser.email,
                              !.password_hash = <<>>,
                              !.role = call[p].role,
                              !.avatar_url = call[p].oauthUser.avatar_url,
                              !.status = "active"])
       IN /\ mockUsers' = Append(mockUsers, newUser)
          /\ now' = now
          /\ Finish(p, Response("oauth", 200, "", "created", newUser,
                                generateToken(newUser, now, now)), call[p])
  /\ UNCHANGED <<tokens, updateCount>>
  /\ UNCHANGED client

(***************************************************************************)
(* authMiddleware and PUT /api/user/profile.  An Authorization header is   *)
(* the characters text followed by the token string token; a request       *)
(* without the header has text Undefined.                                  *)
(***************************************************************************)
Headers ==
  {[text |-> Undefined, token |-> NoToken], [text |-> S_Bearer, token |-> NoToken]}
    \cup {[text |-> S_Bearer, token |-> t] : t \in tokens}
    \cup {[text |-> <<98,101,97,114,101,114,32>>, token |-> t] : t \in tokens}

(* authMiddleware: status 0 and the user when next() runs, else the 401. *)
authMiddleware(users, header, t) ==
  LET extracted == extractTokenFromHeader(header.text)
      token == IF extracted = <<>> THEN header.token ELSE <<extracted>>
      authResult == verifyPermission(users, token, {}, t)
  IN IF header.text = Undefined \/ (header.text = <<>> /\ header.token = NoToken)
       THEN [status |-> 401, reason |-> "NoHeader", user |-> NoUser]
     ELSE IF extracted = Undefined \/ (extracted = <<>> /\ header.token = NoToken)
       THEN [status |-> 401, reason |-> "BadFormat", user |-> NoUser]
     ELSE IF authResult.kind # "ok"
       THEN [status |-> 401, reason |-> "AuthFailed", user |-> NoUser]
     ELSE [status |-> 0, reason |-> "", user |-> authResult.user]

(* authMiddleware, the username checks and the lookup of the new username. *)
ProfileStart(p, usernames, avatars) ==
  /\ Ready(p)
  /\ \E authHeader \in Headers, username \in usernames, avatar_url \in avatars :
       LET auth == authMiddleware(mockUsers, authHeader, now)
           user == auth.user
           rename == ~Falsy(username) /\ username # user.username
           existingUser == getUserByUsername(mockUsers, username)
       IN IF auth.status # 0
            THEN Finish(p, Response("profile", auth.status, "", auth.reason, NoUser, NoToken), Idle)
          ELSE IF rename /\ ~validateUsername(username)
            THEN Finish(p, Response("profile", 400, "username", "format", NoUser, NoToken), Idle)
          ELSE IF rename /\ existingUser # NoUser /\ existingUser.id # user.id
            THEN Finish(p, Response("profile", 400, "username", "exists", NoUser, NoToken), Idle)
          ELSE Goto(p, "profile_update",
                    [Idle EXCEPT !.op = "profile", !.userId = user.id,
                                 !.username = IF rename THEN sanitizeInput(username)
                                              ELSE Undefined,
                                 !.avatar_url = IF Falsy(avatar_url) THEN Undefined
                                                ELSE sanitizeInput(avatar_url)])
  /\ UNCHANGED <<mockUsers, now, tokens, updateCount>>
  /\ UNCHANGED client

(* db.updateUser(user.id, updates) *)
ProfileUpdate(p) ==
  /\ pc[p] = "profile_update"
  /\ LET updates ==
           [f \in {g \in {"username", "avatar_url"} : call[p][g] # Undefined} |-> call[p][f]]
         users == updateUser(mockUsers, call[p].userId, updates)
     IN /\ mockUsers' = users
        /\ Finish(p, Response("profile", 200, "", "", getUserById(users, call[p].userId),
                              NoToken), Idle)
  /\ updateCount < MaxUpdates /\ updateCount' = updateCount + 1
  /\ UNCHANGED <<now, tokens>>
  /\ UNCHANGED client

(***************************************************************************)
(* Spec: two requests at a time on the shared store (register, OAuth and   *)
(* profile handlers interleave at their awaits).                           *)
(***************************************************************************)
RaceUsernames == {S_alice, S_admin}
RaceEmails == {S_aliceEmail, S_bobEmail}
RacePasswords == {S_Secret123}
RaceRoles == {S_user}
ProfileUsernames == {Undefined, S_alice, S_admin, <<97, 98>>}
ProfileAvatars == {Undefined, S_avatar1}

Next ==
  \E p \in Procs :
    \/ RegisterStart(p, RaceUsernames, RaceEmails, RacePasswords, RaceRoles)
    \/ RegisterEmail(p) \/ RegisterCreate(p)
    \/ OAuthStart(p, RaceRoles, ProviderAnswers) \/ OAuthUpdate(p) \/ OAuthProbe(p) \/ OAuthCreate(p)
    \/ ProfileStart(p, ProfileUsernames, ProfileAvatars) \/ ProfileUpdate(p)
    \/ Deliver(p)

Spec == Init /\ [][Next]_vars

(***************************************************************************)
(* SpecSession: one request at a time (register, login, OAuth and the      *)
(* permission check), with the clock and the changes of status and role    *)
(* made outside the subsystem.                                             *)
(***************************************************************************)
Client == "p1"

RegisterUsernames == {S_admin, S_alice, <<97, 98>>}
RegisterEmails == {S_adminEmail, S_aliceEmail, S_bobEmail}
RegisterPasswords == {S_Secret123, S_abc}
RegisterRoles == {S_user, S_creator}

NextSession ==
  \/ Tick
  \/ ExternalUpdate
  \/ RegisterStart(Client, RegisterUsernames, RegisterEmails, RegisterPasswords, RegisterRoles)
  \/ RegisterEmail(Client) \/ RegisterCreate(Client)
  \/ Login(Client)
  \/ VerifyPermission(Client)
  \/ OAuthStart(Client, RegisterRoles, ProviderAnswers)
  \/ OAuthUpdate(Client) \/ OAuthProbe(Client) \/ OAuthCreate(Client)
  \/ Deliver(Client)

SpecSession == Init /\ [][NextSession]_vars

(***************************************************************************)
(* The token codec called directly: generateToken and verifyToken of       *)
(* AuthService applied to users and token strings, with the clock read at  *)
(* each Date.now().                                                        *)
(***************************************************************************)
MaxDrift == 1

(* Users a token is generated for. *)
TokenUsers ==
  {SeedUsers[i] : i \in 1..Len(SeedUsers)}
    \cup {[NoUser EXCEPT !.id = 3, !.username = S_alice, !.email = S_aliceEmail,
                          !.password_hash = hashPassword(S_Secret123),
                          !.role = S_user, !.status = "active"]}

(* generateToken: the clock is read for exp, then once more for iat; it
   may have advanced between the two reads. *)
GenerateToken(p) ==
  /\ Ready(p)
  /\ \E user \in TokenUsers, d \in 0..MaxDrift :
       result' = [result EXCEPT ![p] =
         Response("generateToken", 0, "", "", user, generateToken(user, now, now + d))]
  /\ UNCHANGED <<mockUsers, now, pc, call, tokens, updateCount>>
  /\ UNCHANGED client

(* The caller keeps the token that generateToken returned. *)
TakeToken(p) ==
  /\ pc[p] = "idle" /\ result[p].op = "generateToken"
  /\ tokens' = {result[p].token}
  /\ result' = [result EXCEPT ![p] = NoResult]
  /\ UNCHANGED <<mockUsers, now, pc, call, updateCount>>
  /\ UNCHANGED client

(* The signature segment is the base64url text of a 32-byte digest. *)
SignatureLength == 43

(* The characters that replace the character d of a segment. *)
OtherChars(d) == {(d + 1) % 64, (d + 32) % 64}

(* The decimal numbers that differ from n in one digit. *)
DigitEdits(n) ==
  {m \in {n + 1, n - 1, n + 10, n - 10} : m >= 0 /\ (m \div 10 = n \div 10 \/ m % 10 = n % 10)}

(* The payload segments that differ from seg in one character of a string
   value or in one digit of a number. *)
PayloadEdits(seg) ==
  {[seg EXCEPT !.username = [seg.username EXCEPT ![i] = c]] :
      i \in 1..Len(seg.username), c \in OtherChars(seg.username[1])}
  \cup {[seg EXCEPT !.email = [seg.email EXCEPT ![i] = c]] :
      i \in 1..Len(seg.email), c \in OtherChars(seg.email[1])}
  \cup {[seg EXCEPT !.role = [seg.role EXCEPT ![i] = c]] :
      i \in 1..Len(seg.role), c \in OtherChars(seg.role[1])}
  \cup {[seg EXCEPT !.userId = m] : m \in DigitEdits(seg.userId)}
  \cup {[seg EXCEPT !.exp = m] : m \in DigitEdits(seg.exp)}
  \cup {[seg EXCEPT !.iat = m] : m \in DigitEdits(seg.iat)}

(* The token strings that differ from t in one character: of the header,
   of the payload, of the signature (a text that is not the signature any
   more), or a character replaced by '.', which adds a segment. *)
SingleCharEdits(t) ==
  ({<<[t[1] EXCEPT ![i] = c], t[2], t[3]>> :
      i \in 1..Len(t[1]), c \in OtherChars(t[1][1])}
   \cup {<<t[1], seg, t[3]>> : seg \in PayloadEdits(t[2])}
   \cup {<<t[1], t[2], [key |-> t[3].key, msg |-> <<t[3].msg, i, c>>]>> :
      i \in {1, SignatureLength}, c \in OtherChars(0)}
   \cup {<<SubSeq(t[1], 1, i - 1), SubSeq(t[1], i + 1, Len(t[1])), t[2], t[3]>> :
      i \in {1, Len(t[1])}}) \ {t}

(* Authorization header values: absent, empty, the prefix alone, the prefix
   and a token, other cases of the prefix, the prefix without its space or
   after a space, another scheme. *)
HeaderTexts ==
  {Undefined, <<>>, S_Bearer, S_Bearer \o S_abc, S_Bearer \o <<32>> \o S_abc,
   <<98,101,97,114,101,114,32>> \o S_abc, <<66,69,65,82,69,82,32>> \o S_abc,
   <<66,101,97,114,101,114>>, <<66,101,97,114,101,114>> \o S_abc,
   <<32>> \o S_Bearer \o S_abc, <<66,97,115,105,99,32>> \o S_abc}

(* extractTokenFromHeader called with a header value. *)
ExtractToken(p) ==
  /\ Ready(p)
  /\ \E authHeader \in HeaderTexts :
       result' = [result EXCEPT ![p] =
         [op |-> "extractTokenFromHeader", code |-> 0, field |-> "", reason |-> "",
          user |-> NoUser, token |-> NoToken, payload |-> NoPayload, roles |-> {},
          header |-> authHeader, extracted |-> extractTokenFromHeader(authHeader)]]
  /\ UNCHANGED <<mockUsers, now, pc, call, tokens, updateCount>>
  /\ UNCHANGED client

CodecTokenInputs ==
  tokens \cup UNION {SingleCharEdits(t) : t \in tokens} \cup {<<>>}

(* verifyToken called with a token string. *)
VerifyToken(p) ==
  /\ Ready(p)
  /\ \E token \in CodecTokenInputs :
       LET v == verifyToken(token, now)
       IN result' = [result EXCEPT ![p] =
            [Response("verifyToken", 0, "", v.kind, NoUser, token)
               EXCEPT !.payload = v.payload]]
  /\ UNCHANGED <<mockUsers, now, pc, call, tokens, updateCount>>
  /\ UNCHANGED client

(* Passwords as JSON can carry them: ASCII, a surrogate pair, and strings
   that differ in one unpaired surrogate. *)
S_pairedPassword == <<55357, 56832>>
S_loneHigh == <<55296>> \o S_abc
S_loneHigh2 == <<55297>> \o S_abc

PasswordInputs == {S_Secret123, S_abc, S_pairedPassword, S_loneHigh, S_loneHigh2}

(* verifyPassword(password, await hashPassword(stored)) *)
VerifyPassword(p) ==
  /\ Ready(p)
  /\ \E password \in PasswordInputs, stored \in PasswordInputs :
       result' = [result EXCEPT ![p] =
         [op |-> "verifyPassword", code |-> 0, field |-> "", reason |-> "",
          user |-> NoUser, token |-> NoToken, payload |-> NoPayload, roles |-> {},
          password |-> password, stored |-> stored,
          hashedPassword |-> hashPassword(stored),
          verified |-> verifyPassword(password, hashPassword(stored))]]
  /\ UNCHANGED <<mockUsers, now, pc, call, tokens, updateCount>>
  /\ UNCHANGED client

NextCodec ==
  \/ Tick
  \/ GenerateToken(Client)
  \/ TakeToken(Client)
  \/ VerifyToken(Client)
  \/ ExtractToken(Client)
  \/ VerifyPassword(Client)
  \/ Deliver(Client)

SpecCodec == Init /\ [][NextCodec]_vars

(***************************************************************************)
(* Federated login alone: one client calls POST /api/auth/oauth/:provider  *)
(* again and again with the profiles a provider can answer, while rows are *)
(* suspended or re-activated from outside.                                 *)
(***************************************************************************)
S_longName ==
  <<99,114,101,97,116,111,114,49,32,99,114,101,97,116,111,114,49,45,120,121>>

FedProfiles ==
  { [email |-> S_bobEmail, name |-> S_admin, avatar_url |-> S_avatar1],
    [email |-> S_aliceEmail, name |-> <<97,32,100,45,109,33,105,110>>,
     avatar_url |-> Undefined],
    [email |-> S_bobEmail, name |-> S_longName, avatar_url |-> S_avatar2],
    [email |-> S_aliceEmail, name |-> <<33, 33>>, avatar_url |-> S_avatar1],
    [email |-> S_creator1Email, name |-> S_creator1, avatar_url |-> S_avatar2],
    [email |-> S_adminEmail, name |-> S_admin, avatar_url |-> Undefined],
    [email |-> Undefined, name |-> S_alice, avatar_url |-> S_avatar1],
    [email |-> S_bobEmail, name |-> Undefined, avatar_url |-> Undefined] }

FedAnswers ==
  {[ok |-> FALSE, profile |-> NoProfile]} \cup {[ok |-> TRUE, profile |-> pr] : pr \in FedProfiles}

FedRoles == {S_user, S_creator}

(* The client takes the response and keeps nothing of it. *)
Discard(p) ==
  /\ pc[p] = "idle" /\ result[p] # NoResult
  /\ result' = [result EXCEPT ![p] = NoResult]
  /\ call' = [call EXCEPT ![p] = Idle]
  /\ UNCHANGED <<mockUsers, now, pc, tokens, updateCount>>
  /\ UNCHANGED client

NextFederation ==
  \/ OAuthStart(Client, FedRoles, FedAnswers)
  \/ OAuthUpdate(Client)
  \/ OAuthProbe(Client)
  \/ OAuthCreate(Client)
  \/ ExternalUpdate
  \/ Discard(Client)

SpecFederation == Init /\ [][NextFederation]_vars

(***************************************************************************)
(* Properties.                                                             *)
(***************************************************************************)
UsernameTaken(users, username) == \E i \in 1..Len(users) : users[i].username = username

EmailTaken(users, email) == \E i \in 1..Len(users) : users[i].email = email

RowsWithEmail(users, email) == {i \in 1..Len(users) : users[i].email = email}

Subject(token) == verifyJWT(token, JWT_SECRET).payload.userId

(* C1: when two concurrent oauthRegister calls that resolved to the same
   email, new when the first of them looked it up, have both finished, neither
   returned an error, the store holds exactly one User with that email and
   both tokens carry the id of that User.  (Violated by the code.) *)
C1_ConcurrentFederationSingleUser ==
  \A e \in {pr.email : pr \in Profiles} :
    ( /\ \A p \in Procs : /\ pc[p] = "idle" /\ result[p].op = "oauth"
                          /\ call[p].oauthUser.email = e
      /\ \E p \in Procs : result[p].reason = "created" )
    => /\ \A p \in Procs : result[p].code = 200
       /\ Cardinality(RowsWithEmail(mockUsers, e)) = 1
       /\ \A p \in Procs : \A i \in RowsWithEmail(mockUsers, e) :
            Subject(result[p].token) = mockUsers[i].id

(* C2: no two distinct User rows share a username and no two share an
   email.  (Violated by the code.) *)
C2_UniqueUsernameAndEmail ==
  \A i, j \in 1..Len(mockUsers) :
    i # j => /\ mockUsers[i].username # mockUsers[j].username
             /\ mockUsers[i].email # mockUsers[j].email

(* The step in which p calls register (the route's checks passed). *)
RegisterCalled(p) ==
  /\ pc[p] = "idle" /\ result[p] = NoResult
  /\ \/ pc'[p] = "register_email"
     \/ result'[p].op = "register" /\ result'[p].reason \notin {"missing", "format"}

(* C3: register with a username that a stored User has returns the
   validation error of field "username" and leaves the store unchanged; with
   a free username and an email that a stored User has it returns the
   validation error of field "email" and leaves the store unchanged. *)
C3_DuplicateRejected ==
  [][\A p \in Procs :
       /\ (RegisterCalled(p) /\ UsernameTaken(mockUsers, call'[p].username))
            => /\ pc'[p] = "idle"
               /\ result'[p].code = 400 /\ result'[p].field = "username"
               /\ result'[p].token = NoToken
               /\ mockUsers' = mockUsers
       /\ (pc[p] = "register_email" /\ pc'[p] # "register_email"
             /\ EmailTaken(mockUsers, call[p].email))
            => /\ pc'[p] = "idle"
               /\ result'[p].code = 400 /\ result'[p].field = "email"
               /\ result'[p].token = NoToken
               /\ mockUsers' = mockUsers]_vars

(* A second registration of a registered username with an unused email is
   answered by the username error, and so is one with a taken email. *)
C3_Witness ==
  \E p \in Procs :
    /\ result[p].op = "register" /\ result[p].field = "username"
    /\ result[p].reason = "exists"
    /\ call[p].username = S_alice /\ ~EmailTaken(mockUsers, call[p].email)
    /\ Len(mockUsers) = Len(SeedUsers) + 1

(* The first rule, in the order username-exists, email-exists,
   password-policy, that the arguments of a register call violate. *)
FirstViolated(users, args) ==
  IF UsernameTaken(users, args.username) THEN "username"
  ELSE IF EmailTaken(users, args.email) THEN "email"
  ELSE IF Len(args.password) < MinPasswordLength THEN "password"
  ELSE "none"

(* C4: the error of a register call that violates several rules is the
   first in the order username-exists, email-exists, password-policy. *)
C4_ValidationOrder ==
  \A p \in Procs :
    (result[p].op = "register" /\ result[p].reason \notin {"missing", "format"})
      => IF result[p].code = 200
           THEN Len(call[p].password) >= MinPasswordLength
           ELSE /\ result[p].code = 400
                /\ result[p].field = FirstViolated(mockUsers, call[p])

(* A taken username is reported although the email is taken and the password
   is too short as well. *)
C4_Witness ==
  \E p \in Procs :
    /\ result[p].op = "register" /\ result[p].field = "username"
    /\ EmailTaken(mockUsers, call[p].email)
    /\ Len(call[p].password) < MinPasswordLength

(* A taken email is reported although the password is too short. *)
C4_WitnessEmail ==
  \E p \in Procs :
    /\ result[p].op = "register" /\ result[p].field = "email"
    /\ Len(call[p].password) < MinPasswordLength

(* The stored row that login finds for an email. *)
RowByEmail(users, email) == users[CHOOSE i \in 1..Len(users) : users[i].email = email]

NoHash(user) == user.password_hash = Undefined \/ user.password_hash = <<>>

(* C5: for a User whose stored password hash is empty or absent, and for
   every supplied password, login does not return success and issues no
   token. *)
C5_NoLoginWithoutHash ==
  /\ \A p \in Procs :
       ( /\ result[p].op = "login" /\ result[p].reason \notin {"missing", "format"}
         /\ EmailTaken(mockUsers, call[p].email)
         /\ NoHash(RowByEmail(mockUsers, call[p].email)) )
       => result[p].code # 200 /\ result[p].token = NoToken
  /\ \A i \in 1..Len(mockUsers) : \A password \in LoginPasswords :
       NoHash(mockUsers[i]) =>
         LET r == login(mockUsers, mockUsers[i].email, password, now, now)
         IN r.code # 200 /\ r.token = NoToken

(* login with a password against the account that oauthRegister created
   (empty hash) has been refused. *)
C5_Witness ==
  \E p \in Procs :
    /\ result[p].op = "login" /\ result[p].reason = "BadCredential"
    /\ EmailTaken(mockUsers, call[p].email)
    /\ RowByEmail(mockUsers, call[p].email).password_hash = <<>>

(* The outcome the login rules prescribe for an email and a password. *)
LoginOutcome(users, email, password) ==
  IF ~EmailTaken(users, email) THEN "NotFound"
  ELSE IF RowByEmail(users, email).status # "active" THEN "Disabled"
  ELSE IF hashPassword(password) # RowByEmail(users, email).password_hash
    THEN "BadCredential"
  ELSE ""

(* C6: login returns NotFound when no User has the email, otherwise
   Disabled when the User is not active (whatever the password), otherwise
   BadCredential when the password does not verify; a token is returned only
   when the User exists, is active and the password verifies; no login that
   fails changes the store. *)
C6_LoginOrder ==
  [][\A p \in Procs :
       ( /\ result[p] = NoResult /\ result'[p].op = "login"
         /\ result'[p].reason \notin {"missing", "format"} )
       => /\ result'[p].reason
               = LoginOutcome(mockUsers, call'[p].email, call'[p].password)
          /\ (result'[p].code = 200) <=> (result'[p].reason = "")
          /\ (result'[p].token # NoToken) <=> (result'[p].reason = "")
          /\ result'[p].reason = ""
               => Subject(result'[p].token)
                    = RowByEmail(mockUsers, call'[p].email).id
          /\ result'[p].reason # "" => mockUsers' = mockUsers]_vars

(* A login with a wrong password against an account that is not active has
   been answered Disabled. *)
C6_Witness ==
  \E p \in Procs :
    /\ result[p].op = "login" /\ result[p].reason = "Disabled"
    /\ EmailTaken(mockUsers, call[p].email)
    /\ hashPassword(call[p].password)
         # RowByEmail(mockUsers, call[p].email).password_hash

(* A login has succeeded. *)
C6_WitnessSuccess ==
  \E p \in Procs : result[p].op = "login" /\ result[p].code = 200

(* The token carries the signature of the server's secret over its first
   two segments. *)
SignedByServer(token) ==
  /\ Len(token) = 3
  /\ token[3].key = JWT_SECRET /\ token[3].msg = <<token[1], token[2]>>

(* The step in which p calls verifyPermission. *)
VerifyPermissionCalled(p) ==
  result[p] = NoResult /\ result'[p].op = "verifyPermission"

(* A row with this id is stored, is active, and its role passes
   requiredRoles. *)
CurrentlyAllowed(users, id, requiredRoles) ==
  \E i \in 1..Len(users) :
    /\ users[i].id = id /\ users[i].status = "active"
    /\ requiredRoles = {} \/ users[i].role \in requiredRoles

(* C7: verifyPermission returns a non-null result only if the token
   verifies (format, signature, expiry), a User with the token's subject id
   exists with status active and, for a non-empty requiredRoles, that User's
   current role is in requiredRoles. *)
C7_AuthorizeOnlyIf ==
  [][\A p \in Procs :
       (VerifyPermissionCalled(p) /\ result'[p].reason # "null")
       => /\ result'[p].reason = "ok"
          /\ SignedByServer(result'[p].token)
          /\ result'[p].token[2].exp >= now
          /\ CurrentlyAllowed(mockUsers, result'[p].token[2].userId,
                              result'[p].roles)
          /\ result'[p].user.id = result'[p].token[2].userId]_vars

(* The token of an active "user"-role account, authorized against
   ["admin"], has yielded null. *)
C7_Witness ==
  \E p \in Procs :
    /\ result[p].op = "verifyPermission" /\ result[p].reason = "null"
    /\ result[p].roles = {S_admin}
    /\ SignedByServer(result[p].token) /\ result[p].token[2].exp >= now
    /\ \E i \in 1..Len(mockUsers) :
         /\ mockUsers[i].id = result[p].token[2].userId
         /\ mockUsers[i].status = "active" /\ mockUsers[i].role = S_user

(* C8: a verifyPermission call with an unexpired token that the server
   issued is decided by the status and role the store holds now, not by the
   snapshot in the token: it is allowed exactly when the row of the subject id
   is active now and its role now passes requiredRoles. *)
C8_CurrentRoleAndStatus ==
  [][\A p \in Procs :
       ( /\ VerifyPermissionCalled(p)
         /\ SignedByServer(result'[p].token)
         /\ result'[p].token[2].exp >= now )
       => /\ (result'[p].reason = "ok")
               <=> CurrentlyAllowed(mockUsers, result'[p].token[2].userId,
                                    result'[p].roles)
          /\ result'[p].reason = "ok"
               => \E i \in 1..Len(mockUsers) : result'[p].user = mockUsers[i]]_vars

(* A token issued to a "user"-role account has been allowed against
   ["admin"] after the account's role was changed to admin. *)
C8_Witness ==
  \E p \in Procs :
    /\ result[p].op = "verifyPermission" /\ result[p].reason = "ok"
    /\ result[p].roles = {S_admin}
    /\ result[p].payload.role = S_user /\ result[p].user.role = S_admin

(* A token issued to an active account has been refused after the account
   was suspended. *)
C8_WitnessSuspended ==
  \E p \in Procs :
    /\ result[p].op = "verifyPermission" /\ result[p].reason = "null"
    /\ result[p].roles = {}
    /\ SignedByServer(result[p].token) /\ result[p].token[2].exp >= now
    /\ \E i \in 1..Len(mockUsers) :
         /\ mockUsers[i].id = result[p].token[2].userId
         /\ mockUsers[i].status = "suspended"

(* C9: verifyPermission is total: for every token (malformed, wrongly
   signed, expired, naming a missing user) and every requiredRoles it returns
   a {user, payload} pair or null, and no error leaves it. *)
C9_AuthorizeTotal ==
  /\ \A p \in Procs :
       result[p].op = "verifyPermission"
         => \/ /\ result[p].reason = "null"
               /\ result[p].user = NoUser /\ result[p].payload = NoPayload
            \/ /\ result[p].reason = "ok"
               /\ result[p].user # NoUser /\ result[p].payload # NoPayload
  /\ \A token \in TokenInputs, requiredRoles \in RoleLists :
       verifyPermission(mockUsers, token, requiredRoles, now).kind \in {"ok", "null"}

(* verifyPermission has answered null for a token that is not three
   segments. *)
C9_Witness ==
  \E p \in Procs :
    /\ result[p].op = "verifyPermission" /\ result[p].reason = "null"
    /\ Len(result[p].token) # 3

(* verifyPermission has answered null for a token of the server that names
   a user the store does not hold. *)
C9_WitnessMissingUser ==
  \E p \in Procs :
    /\ result[p].op = "verifyPermission" /\ result[p].reason = "null"
    /\ result[p].token = StaleToken /\ StaleToken[2].exp >= now

(* C10: verifying the token that generateToken made for a User, with the
   same secret and before it expires, succeeds and returns a payload whose
   userId, username, email and role are those of the User at issuance.
   (Violated by the code.) *)
C10_TokenRoundTrip ==
  \A p \in Procs :
    ( /\ result[p].op \in {"register", "login", "oauth"} /\ result[p].code = 200
      /\ result[p].token[2].exp >= now )
    => LET v == verifyToken(result[p].token, now)
       IN /\ v.kind = "payload"
          /\ v.payload.userId = result[p].user.id
          /\ v.payload.username = result[p].user.username
          /\ v.payload.email = result[p].user.email
          /\ v.payload.role = result[p].user.role

(* C11: every payload that generateToken builds has exp - iat = 86400
   seconds exactly, whatever the clock shows at each of its reads.
   (Violated by the code.) *)
C11_ExpiryIsIssuePlusTTL ==
  \A p \in Procs :
    result[p].op = "generateToken"
      => result[p].token[2].exp - result[p].token[2].iat = 86400

(* The step in which p calls verifyToken. *)
VerifyTokenCalled(p) == result[p] = NoResult /\ result'[p].op = "verifyToken"

(* C12: for every issued token, a token that differs from it in one
   character of the header, payload or signature segment makes verifyToken
   return null; no payload is accepted from a token that is not an issued
   one. *)
C12_SingleCharTamperRejected ==
  /\ \A t \in tokens : \A e \in SingleCharEdits(t) :
       e # t /\ verifyToken(e, now).kind = "null"
  /\ \A p \in Procs :
       (result[p].op = "verifyToken" /\ result[p].token \notin tokens)
         => result[p].reason = "null" /\ result[p].payload = NoPayload

(* verifyToken has returned null for an unexpired issued token of which one
   character of the payload segment was replaced. *)
C12_Witness ==
  \E p \in Procs : \E t \in tokens :
    /\ result[p].op = "verifyToken" /\ result[p].reason = "null"
    /\ Len(result[p].token) = 3
    /\ result[p].token[1] = t[1] /\ result[p].token[3] = t[3]
    /\ result[p].token[2] # t[2]
    /\ t[2].exp > now /\ result[p].token[2].exp > now

(* C13: verifyToken returns a payload for a correctly signed token only
   while the current time in seconds is strictly before exp; at the instant
   the current time equals exp, and after it, it returns null.
   (Violated by the code.) *)
C13_ExpiredAtOrBeforeNow ==
  [][\A p \in Procs :
       (VerifyTokenCalled(p) /\ SignedByServer(result'[p].token))
         => ((result'[p].reason = "payload") <=> (now < result'[p].token[2].exp))]_vars

(* The header is a string that starts with the seven characters
   "Bearer ". *)
StartsWithBearer(header) ==
  /\ header # Undefined /\ Len(header) >= 7
  /\ header[1] = 66 /\ header[2] = 101 /\ header[3] = 97 /\ header[4] = 114
  /\ header[5] = 101 /\ header[6] = 114 /\ header[7] = 32

(* C14: extractTokenFromHeader returns exactly the part of the header
   after the seven characters "Bearer " when the header starts with them
   (case-sensitive), and null for a null or empty header and for every header
   that does not start with them. *)
C14_ExtractBearer ==
  /\ \A p \in Procs :
       result[p].op = "extractTokenFromHeader"
         => IF StartsWithBearer(result[p].header)
              THEN /\ result[p].extracted # Undefined
                   /\ Len(result[p].extracted) = Len(result[p].header) - 7
                   /\ \A i \in 1..Len(result[p].extracted) :
                        result[p].extracted[i] = result[p].header[i + 7]
              ELSE result[p].extracted = Undefined
  /\ \A header \in HeaderTexts :
       StartsWithBearer(header) \/ extractTokenFromHeader(header) = Undefined

(* extractTokenFromHeader has returned null for a header with the prefix
   "bearer " in lower case. *)
C14_Witness ==
  \E p \in Procs :
    /\ result[p].op = "extractTokenFromHeader"
    /\ result[p].header = <<98,101,97,114,101,114,32>> \o S_abc
    /\ result[p].extracted = Undefined

(* extractTokenFromHeader has returned the characters after the prefix. *)
C14_WitnessToken ==
  \E p \in Procs :
    /\ result[p].op = "extractTokenFromHeader"
    /\ result[p].header = S_Bearer \o S_abc /\ result[p].extracted = S_abc

(* The characters generateUniqueUsername keeps: letters, digits, underscore
   and CJK (U+4E00 to U+9FA5). *)
KeptChar(c) ==
  \/ c \in 48..57 \/ c \in 65..90 \/ c \in 97..122 \/ c = 95 \/ c \in 19968..40869

(* The base: the kept characters of the display name, at most the first 15
   of them, or "user" when none is kept. *)
ExpectedBase(name) ==
  LET kept == SelectSeq(name, KeptChar)
  IN IF kept = <<>> THEN <<117, 115, 101, 114>>
     ELSE IF Len(kept) <= 15 THEN kept
     ELSE [i \in 1..15 |-> kept[i]]

(* The decimal text of the numbers 1..99. *)
Suffix(k) == IF k < 10 THEN <<48 + k>> ELSE <<48 + (k \div 10), 48 + (k % 10)>>

(* The k-th candidate: base for k = 0, base followed by k otherwise. *)
Candidate(base, k) == IF k = 0 THEN base ELSE base \o Suffix(k)

(* C15: generateUniqueUsername takes as base the display name without the
   characters outside letters, digits, underscore and CJK, cut to 15
   characters, or "user" if that is empty; it probes base, base1, base2, ...
   in that order and returns the first that no stored User has as username. *)
C15_UniqueUsernameSequence ==
  [][\A p \in Procs :
       (pc[p] = "oauth_probe" /\ (pc'[p] # pc[p] \/ call'[p] # call[p])) =>
         LET base == ExpectedBase(call[p].oauthUser.name)
             k == call[p].counter - 1
         IN /\ call[p].username = Candidate(base, k)
            /\ \A j \in 0..(k - 1) : UsernameTaken(mockUsers, Candidate(base, j))
            /\ pc'[p] = "oauth_probe"
                 => /\ UsernameTaken(mockUsers, call[p].username)
                    /\ call'[p].username = Candidate(base, k + 1)
            /\ pc'[p] = "oauth_create"
                 => /\ ~UsernameTaken(mockUsers, call[p].username)
                    /\ call'[p].username = call[p].username
            /\ pc'[p] \in {"oauth_probe", "oauth_create"}]_vars

(* generateUniqueUsername has returned base2 after it found base and base1
   taken, the base being the cleaned display name. *)
C15_Witness ==
  \E p \in Procs :
    /\ pc[p] = "oauth_create"
    /\ call[p].oauthUser.name = <<97,32,100,45,109,33,105,110>>
    /\ call[p].username = S_admin \o <<50>>

(* generateUniqueUsername has cut the base to 15 characters. *)
C15_WitnessCut ==
  \E p \in Procs :
    /\ pc[p] = "oauth_create" /\ call[p].oauthUser.name = S_longName
    /\ Len(call[p].username) = 15

(* generateUniqueUsername has taken "user" for a name without a kept
   character. *)
C15_WitnessUser ==
  \E p \in Procs :
    /\ pc[p] = "oauth_create" /\ call[p].oauthUser.name = <<33, 33>>
    /\ call[p].username = S_user

(* The step in which p calls oauthRegister and the provider answers with a
   profile (call'[p].oauthUser). *)
OAuthResolved(p) ==
  /\ pc[p] = "idle" /\ result[p] = NoResult
  /\ \/ pc'[p] \in {"oauth_update", "oauth_probe"}
     \/ result'[p].op = "oauth" /\ result'[p].reason \notin {"provider", "OAuthFailed"}

(* C16: when the profile email belongs to a stored User whose status is
   not active, oauthRegister fails with the Disabled error, issues no token,
   creates no User and changes no field of the existing User. *)
C16_FederationDisabled ==
  [][\A p \in Procs :
       ( /\ OAuthResolved(p)
         /\ EmailTaken(mockUsers, call'[p].oauthUser.email)
         /\ RowByEmail(mockUsers, call'[p].oauthUser.email).status # "active" )
       => /\ pc'[p] = "idle"
          /\ result'[p].code = 401 /\ result'[p].reason = "Disabled"
          /\ result'[p].token = NoToken /\ result'[p].user = NoUser
          /\ mockUsers' = mockUsers]_vars

(* oauthRegister has answered Disabled for a suspended User whose stored
   avatar is not the one the provider supplied. *)
C16_Witness ==
  \E p \in Procs :
    /\ result[p].op = "oauth" /\ result[p].reason = "Disabled"
    /\ call[p].oauthUser.avatar_url = S_avatar2
    /\ EmailTaken(mockUsers, call[p].oauthUser.email)
    /\ RowByEmail(mockUsers, call[p].oauthUser.email).status = "suspended"
    /\ RowByEmail(mockUsers, call[p].oauthUser.email).avatar_url # S_avatar2

(* The provider supplies an avatar that differs from the stored one. *)
NewAvatar(user, profile) ==
  /\ profile.avatar_url # Undefined /\ profile.avatar_url # <<>>
  /\ user.avatar_url # profile.avatar_url

(* C17: on the matched path (the profile email belongs to an active User)
   oauthRegister creates no User, changes no field of the matched User other
   than avatar_url, changes avatar_url only when the provider supplies one
   that differs from the stored one, and issues the token for the matched
   User's id. *)
C17_MatchedFrame ==
  [][\A p \in Procs :
       /\ ( /\ OAuthResolved(p)
            /\ EmailTaken(mockUsers, call'[p].oauthUser.email)
            /\ RowByEmail(mockUsers, call'[p].oauthUser.email).status = "active" )
          => LET user == RowByEmail(mockUsers, call'[p].oauthUser.email)
             IN /\ mockUsers' = mockUsers
                /\ IF NewAvatar(user, call'[p].oauthUser)
                     THEN pc'[p] = "oauth_update" /\ call'[p].userId = user.id
                     ELSE /\ pc'[p] = "idle" /\ result'[p].code = 200
                          /\ result'[p].user = user
                          /\ Subject(result'[p].token) = user.id
       /\ (pc[p] = "oauth_update" /\ pc'[p] # pc[p])
          => /\ Len(mockUsers') = Len(mockUsers)
             /\ \A i \in 1..Len(mockUsers) :
                  IF mockUsers[i].id = call[p].userId
                    THEN /\ mockUsers'[i]
                              = [mockUsers[i] EXCEPT !.avatar_url = call[p].oauthUser.avatar_url]
                         /\ result'[p].user = mockUsers'[i]
                    ELSE mockUsers'[i] = mockUsers[i]
             /\ pc'[p] = "idle" /\ result'[p].code = 200
             /\ Subject(result'[p].token) = call[p].userId]_vars

(* oauthRegister has matched the seeded creator, set the provider's avatar
   and left the other fields as they were. *)
C17_Witness ==
  \E p \in Procs :
    /\ result[p].op = "oauth" /\ result[p].reason = "matched"
    /\ result[p].user = [SeedUsers[2] EXCEPT !.avatar_url = S_avatar2]
    /\ mockUsers[2] = result[p].user
    /\ Subject(result[p].token) = 2

(* oauthRegister has matched a User without a write: the provider supplied
   no avatar. *)
C17_WitnessNoSync ==
  \E p \in Procs :
    /\ result[p].op = "oauth" /\ result[p].reason = "matched"
    /\ call[p].oauthUser.avatar_url = Undefined
    /\ mockUsers = SeedUsers

(* C18: on the created path (no stored User has the profile email)
   oauthRegister adds exactly one User whose email is the profile email, whose
   password hash is empty, whose role is the requested role, whose status is
   active, whose balances are zero and whose avatar is the provider's avatar,
   and the token it returns carries the id of that User. *)
C18_CreatedAccount ==
  [][\A p \in Procs :
       /\ ( /\ OAuthResolved(p)
            /\ call'[p].oauthUser.name # Undefined
            /\ ~EmailTaken(mockUsers, call'[p].oauthUser.email) )
          => pc'[p] = "oauth_probe" /\ mockUsers' = mockUsers
       /\ (pc[p] = "oauth_create" /\ pc'[p] # pc[p])
          => /\ Len(mockUsers') = Len(mockUsers) + 1
             /\ \A i \in 1..Len(mockUsers) : mockUsers'[i] = mockUsers[i]
             /\ LET newUser == mockUsers'[Len(mockUsers')]
                IN /\ newUser.email = call[p].oauthUser.email
                   /\ newUser.username = call[p].username
                   /\ newUser.password_hash = <<>>
                   /\ newUser.role = call[p].role
                   /\ newUser.status = "active"
                   /\ newUser.balance = 0 /\ newUser.total_earnings = 0
                   /\ newUser.avatar_url = call[p].oauthUser.avatar_url
                   /\ \A i \in 1..Len(mockUsers) : mockUsers[i].id # newUser.id
                   /\ result'[p].code = 200 /\ result'[p].user = newUser
                   /\ Subject(result'[p].token) = newUser.id]_vars

(* oauthRegister has created the account of a new email with the requested
   role "creator" and the provider's avatar. *)
C18_Witness ==
  \E p \in Procs :
    /\ result[p].op = "oauth" /\ result[p].reason = "created"
    /\ result[p].user.email = S_bobEmail /\ result[p].user.role = S_creator
    /\ result[p].user.avatar_url = S_avatar2
    /\ result[p].user.password_hash = <<>>
    /\ mockUsers[Len(mockUsers)] = result[p].user
    /\ Subject(result[p].token) = result[p].user.id

(* C19: whenever an oauthRegister call ends in a failure result (code
   exchange rejected, profile fetch failed, disabled account, internal error
   before the account is created), the stored Users and every field of each
   are the same as before the call. *)
C19_FailureLeavesStore ==
  [][\A p \in Procs :
       ( /\ pc[p] \in {"idle", "oauth_update", "oauth_probe", "oauth_create"}
         /\ result[p] = NoResult
         /\ result'[p].op = "oauth" /\ result'[p].code # 200 )
       => /\ pc[p] = "idle"
          /\ mockUsers' = mockUsers
          /\ result'[p].token = NoToken /\ result'[p].user = NoUser]_vars

(* oauthRegister has failed with the internal error (the profile has no
   name to make a username from) and with the store as it was. *)
C19_Witness ==
  \E p \in Procs :
    /\ result[p].op = "oauth" /\ result[p].code = 500
    /\ call[p].oauthUser.name = Undefined
    /\ ~EmailTaken(mockUsers, call[p].oauthUser.email)

(* oauthRegister has failed because the provider rejected the code. *)
C19_WitnessRejected ==
  \E p \in Procs :
    /\ result[p].op = "oauth" /\ result[p].reason = "OAuthFailed"
    /\ Len(mockUsers) > Len(SeedUsers)

(* C20: when the provider profile has no usable email, oauthRegister fails
   with the NoEmail error, creates no User and issues no token; no stored
   User has an absent or empty email.  (Violated by the code.) *)
C20_NoEmailFails ==
  /\ \A i \in 1..Len(mockUsers) :
       mockUsers[i].email # Undefined /\ mockUsers[i].email # <<>>
  /\ \A p \in Procs :
       ( /\ call[p].oauthUser # NoProfile
         /\ call[p].oauthUser.email \in {Undefined, <<>>} )
         => /\ pc[p] = "idle" /\ result[p].op = "oauth"
            /\ result[p].code # 200 /\ result[p].reason = "NoEmail"
            /\ result[p].token = NoToken /\ result[p].user = NoUser

(***************************************************************************)
(* GET /api/user/profile: authMiddleware, then the handler answers with    *)
(* the user that authMiddleware put into the context.                      *)
(***************************************************************************)
GetProfile(p) ==
  /\ Ready(p)
  /\ \E authHeader \in Headers :
       LET auth == authMiddleware(mockUsers, authHeader, now)
       IN IF auth.status # 0
            THEN Finish(p, Response("get_profile", auth.status, "", auth.reason, NoUser, NoToken),
                        Idle)
            ELSE Finish(p, Response("get_profile", 200, "", "", auth.user, NoToken), Idle)
  /\ UNCHANGED <<mockUsers, now, tokens, updateCount>>
  /\ UNCHANGED client

(***************************************************************************)
(* SpecAccounts: one client walks through the account endpoints: register  *)
(* with or without a role in the body, login, federated login, and the     *)
(* profile routes with the token it was given.                             *)
(***************************************************************************)
S_Al == <<65, 108>>

AccountUsernames == {S_alice, <<97, 98>>}
AccountEmails == {S_aliceEmail, S_adminEmail}
AccountPasswords == {S_Secret123, S_abc}
BodyRoles == {Undefined, S_creator, S_admin}
AccountProfiles ==
  { [email |-> S_bobEmail, name |-> S_Al, avatar_url |-> Undefined],
    [email |-> S_bobEmail, name |-> S_admin, avatar_url |-> Undefined],
    [email |-> S_adminEmail, name |-> S_admin, avatar_url |-> S_avatar1] }
AccountAnswers ==
  {[ok |-> FALSE, profile |-> NoProfile]}
    \cup {[ok |-> TRUE, profile |-> pr] : pr \in AccountProfiles}
AccountRenames == {Undefined, S_creator1, <<97, 98>>}

NextAccounts ==
  \/ RegisterStart(Client, AccountUsernames, AccountEmails, AccountPasswords, BodyRoles)
  \/ RegisterEmail(Client)
  \/ RegisterCreate(Client)
  \/ Login(Client)
  \/ OAuthStart(Client, BodyRoles, AccountAnswers)
  \/ OAuthUpdate(Client)
  \/ OAuthProbe(Client)
  \/ OAuthCreate(Client)
  \/ ProfileStart(Client, AccountRenames, ProfileAvatars)
  \/ ProfileUpdate(Client)
  \/ GetProfile(Client)
  \/ Deliver(Client)

SpecAccounts == Init /\ [][NextAccounts]_vars

(***************************************************************************)
(* C21: a successful register adds exactly one row, with the username and  *)
(* the email of the request, balance 0, total earnings 0 and status        *)
(* active; the payload of the returned token names the id of that row and  *)
(* its role, and the role is user when the body has no role.               *)
(***************************************************************************)
RegisterSucceeds(p) ==
  pc[p] = "register_create" /\ result'[p].op = "register" /\ result'[p].code = 200

C21_RegisterAddsOneUser ==
  [][\A p \in Procs :
       RegisterSucceeds(p) =>
         LET newUser == mockUsers'[Len(mockUsers')]
             payload == verifyJWT(result'[p].token, JWT_SECRET).payload
         IN /\ Len(mockUsers') = Len(mockUsers) + 1
            /\ SubSeq(mockUsers', 1, Len(mockUsers)) = mockUsers
            /\ newUser.username = call[p].username
            /\ newUser.email = call[p].email
            /\ newUser.balance = 0
            /\ newUser.total_earnings = 0
            /\ newUser.status = "active"
            /\ Len(result'[p].token) = 3
            /\ payload.userId = newUser.id
            /\ payload.role = newUser.role
            /\ newUser.role = (IF call[p].bodyRole = Undefined THEN S_user
                               ELSE call[p].bodyRole)
            /\ result'[p].user = WithoutPassword(newUser)]_vars

C21_Witness ==
  /\ result[Client].op = "register" /\ result[Client].code = 200
  /\ call[Client].bodyRole = Undefined
  /\ mockUsers[Len(mockUsers)].role = S_user
  /\ mockUsers[Len(mockUsers)].username = S_alice

(***************************************************************************)
(* C22: every stored username, whether it came from register, from the    *)
(* name generated for a federated login or from a profile update, has 3 to *)
(* 20 characters, each a letter, a digit, an underscore or a CJK           *)
(* character.  (Violated by the code: the generated name is not checked.)  *)
(***************************************************************************)
UsernameInRange(username) ==
  /\ Len(username) >= 3 /\ Len(username) <= 20
  /\ \A i \in 1..Len(username) : KeptChar(username[i])

C22_StoredUsernamesInRange ==
  \A i \in 1..Len(mockUsers) : UsernameInRange(mockUsers[i].username)

(***************************************************************************)
(* SpecContention: federated logins whose display name is "admin" run      *)
(* next to registrations of the usernames admin1 and admin2, so that a     *)
(* candidate of generateUniqueUsername can be taken between two turns of   *)
(* its loop.                                                               *)
(***************************************************************************)
S_admin1 == S_admin \o <<49>>
S_admin2 == S_admin \o <<50>>

ContentionUsernames == {S_admin1, S_admin2}
ContentionProfiles ==
  { [email |-> S_bobEmail, name |-> S_admin, avatar_url |-> Undefined],
    [email |-> S_aliceEmail, name |-> S_admin, avatar_url |-> Undefined] }
ContentionAnswers == {[ok |-> TRUE, profile |-> pr] : pr \in ContentionProfiles}

NextContention ==
  \E p \in Procs :
    \/ RegisterStart(p, ContentionUsernames, RaceEmails, RacePasswords, RaceRoles)
    \/ RegisterEmail(p)
    \/ RegisterCreate(p)
    \/ OAuthStart(p, RaceRoles, ContentionAnswers)
    \/ OAuthProbe(p)
    \/ OAuthCreate(p)
    \/ Discard(p)

SpecContention == Init /\ [][NextContention]_vars

(***************************************************************************)
(* C23: every turn of the collision loop decides by a lookup in the store  *)
(* as it is at that turn: a candidate that a concurrent registration has   *)
(* inserted in the meantime is found taken, and the username the loop      *)
(* returns is one the lookup just before the return found unused.          *)
(***************************************************************************)
ProbeTurn(p) == pc[p] = "oauth_probe" /\ (pc'[p] # pc[p] \/ call'[p] # call[p])

C23_FreshLookupPerCandidate ==
  [][\A p \in Procs :
       ProbeTurn(p) =>
         /\ UsernameTaken(mockUsers, call[p].username)
              => /\ pc'[p] = "oauth_probe"
                 /\ call'[p].username # call[p].username
         /\ ~UsernameTaken(mockUsers, call[p].username)
              => /\ pc'[p] = "oauth_create"
                 /\ call'[p].username = call[p].username
                 /\ ~UsernameTaken(mockUsers', call'[p].username)]_vars

(* The loop has returned admin2: admin1 was found taken.  It was registered
   by the other request while this one was running, for the row has the email
   that the federated login did not find in the store when it began. *)
C23_Witness ==
  \E p, q \in Procs :
    /\ p # q
    /\ pc[p] = "oauth_create" /\ call[p].username = S_admin2
    /\ result[q].op = "register" /\ result[q].code = 200
    /\ result[q].user.username = S_admin1
    /\ result[q].user.email = call[p].oauthUser.email

(***************************************************************************)
(* C24: the collision loop makes at most a fixed number of attempts and    *)
(* ends with an error of its own when they are used up.  AttemptLimit      *)
(* stands for that number; call[p].counter is the number of lookups made   *)
(* when the current one is counted.  (Violated by the code: the loop has   *)
(* no limit and no error, for any number put in the place of               *)
(* AttemptLimit.)                                                          *)
(***************************************************************************)
AttemptLimit == 2

C24_AttemptsBounded ==
  [][\A p \in Procs :
       ( /\ ProbeTurn(p)
         /\ call[p].counter >= AttemptLimit
         /\ UsernameTaken(mockUsers, call[p].username) )
       => /\ pc'[p] = "idle"
          /\ result'[p].op = "oauth" /\ result'[p].code # 200
          /\ result'[p].token = NoToken]_vars

(***************************************************************************)
(* C25: for all passwords p and p2, verifyPassword(p, hashPassword(p2)) is *)
(* true when p = p2 and false when p # p2.  (Violated by the code: two     *)
(* passwords that differ in an unpaired surrogate have the same bytes.)    *)
(***************************************************************************)
C25_VerifyPasswordExact ==
  \A p \in Procs :
    result[p].op = "verifyPassword" =>
      (result[p].verified <=> result[p].password = result[p].stored)

(***************************************************************************)
(* C26: no row created by a register or a federated login request has the  *)
(* role admin: whatever role the body names, the stored role is user,      *)
(* creator or advertiser.  (Violated by the code: the role of the body is  *)
(* stored as it is.)                                                       *)
(***************************************************************************)
C26_NoSelfMadeAdmin ==
  \A i \in (Len(SeedUsers) + 1)..Len(mockUsers) :
    mockUsers[i].role \in {S_user, S_creator, S_advertiser}

(***************************************************************************)
(* C27: no success response of register, login, oauthRegister or the       *)
(* authenticated profile endpoints carries the stored password hash: the   *)
(* user object of the response has no password_hash.  (Violated by the     *)
(* code: only register removes the field.)                                 *)
(***************************************************************************)
C27_NoHashInResponses ==
  \A p \in Procs :
    ( /\ result[p].code = 200
      /\ result[p].op \in {"register", "login", "oauth", "profile", "get_profile"} )
    => result[p].user.password_hash = Undefined

(***************************************************************************)
(* The role middlewares of index.ts and the routes behind them.  A         *)
(* middleware answers 0 when it calls next().                              *)
(***************************************************************************)
(* An admin check that lets creators through as well. *)
adminMiddlewareCreator(user) ==
  IF user = NoUser \/ user.role \notin {S_creator, S_admin} THEN 403 ELSE 0

(* if (!user || user.role !== 'admin') return 403 *)
adminMiddleware(user) ==
  IF user = NoUser \/ user.role # S_admin THEN 403 ELSE 0

(* if (!user || !['creator', 'admin'].includes(user.role)) return 403 *)
creatorMiddleware(user) ==
  IF user = NoUser \/ user.role \notin {S_creator, S_admin} THEN 403 ELSE 0

(* Authorization headers of a request to a protected route: none, a prefix
   without token, and a token string behind "Bearer " or "bearer ". *)
RouteHeaders ==
  {[text |-> Undefined, token |-> NoToken], [text |-> S_Bearer, token |-> NoToken]}
    \cup {[text |-> S_Bearer, token |-> t] : t \in TokenInputs}
    \cup {[text |-> <<98,101,97,114,101,114,32>>, token |-> t] : t \in tokens}

RouteResponse(op, code, reason, user, authHeader) ==
  [op |-> op, code |-> code, field |-> "", reason |-> reason, user |-> user,
   token |-> NoToken, payload |-> NoPayload, roles |-> {}, header |-> authHeader]

(* A route of /api/admin/*: authMiddleware, adminMiddleware, handler. *)
AdminRoute(p) ==
  /\ Ready(p)
  /\ \E authHeader \in RouteHeaders :
       LET auth == authMiddleware(mockUsers, authHeader, now)
       IN result' = [result EXCEPT ![p] =
            IF auth.status # 0
              THEN RouteResponse("admin", auth.status, auth.reason, NoUser, authHeader)
            ELSE IF adminMiddleware(auth.user) # 0
              THEN RouteResponse("admin", adminMiddleware(auth.user), "Forbidden", NoUser,
                                 authHeader)
            ELSE RouteResponse("admin", 200, "handler", auth.user, authHeader)]
  /\ UNCHANGED <<mockUsers, now, pc, call, tokens, updateCount>>
  /\ UNCHANGED client

(* POST /api/workflows and the routes of /api/creator/*: authMiddleware,
   creatorMiddleware, handler. *)
CreatorRoute(p) ==
  /\ Ready(p)
  /\ \E authHeader \in RouteHeaders :
       LET auth == authMiddleware(mockUsers, authHeader, now)
       IN result' = [result EXCEPT ![p] =
            IF auth.status # 0
              THEN RouteResponse("creator", auth.status, auth.reason, NoUser, authHeader)
            ELSE IF creatorMiddleware(auth.user) # 0
              THEN RouteResponse("creator", creatorMiddleware(auth.user), "Forbidden", NoUser,
                                 authHeader)
            ELSE RouteResponse("creator", 200, "handler", auth.user, authHeader)]
  /\ UNCHANGED <<mockUsers, now, pc, call, tokens, updateCount>>
  /\ UNCHANGED client

(***************************************************************************)
(* SpecRoutes: one client holds a token issued for a seeded or an unknown  *)
(* user and calls the admin and creator routes with it, with altered       *)
(* copies of it or without it, while the clock advances and rows change    *)
(* their role or status.                                                   *)
(***************************************************************************)
NextRoutes ==
  \/ Tick
  \/ ExternalUpdate
  \/ GenerateToken(Client)
  \/ TakeToken(Client)
  \/ AdminRoute(Client)
  \/ CreatorRoute(Client)
  \/ Discard(Client)

SpecRoutes == Init /\ [][NextRoutes]_vars

(***************************************************************************)
(* C28: the handler of an /api/admin/* route runs only for a request whose *)
(* Bearer token verifies, has not expired and names a stored, active User  *)
(* with role admin; a creator-only handler runs only if that User is a     *)
(* creator or an admin; every other request is answered 401 or 403 and the *)
(* handler does not run.                                                   *)
(***************************************************************************)
RouteCalled(p) == result[p] = NoResult /\ result'[p].op \in {"admin", "creator"}

(* The header carries "Bearer " and a token of the server that has not
   expired and whose subject is an active row with one of the roles. *)
Authorized(authHeader, roles) ==
  /\ authHeader.text = S_Bearer
  /\ SignedByServer(authHeader.token)
  /\ authHeader.token[2].exp >= now
  /\ CurrentlyAllowed(mockUsers, authHeader.token[2].userId, roles)

C28_RoutesGuarded ==
  [][\A p \in Procs :
       RouteCalled(p) =>
         LET r == result'[p]
             roles == IF r.op = "admin" THEN {S_admin} ELSE {S_creator, S_admin}
         IN /\ r.code \in {200, 401, 403}
            /\ (r.code = 200 /\ r.reason = "handler") <=> Authorized(r.header, roles)
            /\ r.reason = "handler" => r.code = 200]_vars

(* An admin route has answered 403 to a valid token of an active creator. *)
C28_Witness ==
  /\ result[Client].op = "admin" /\ result[Client].code = 403
  /\ SignedByServer(result[Client].header.token)
  /\ result[Client].header.token[2].userId = 2
  /\ mockUsers[2].role = S_creator /\ mockUsers[2].status = "active"

(***************************************************************************)
(* C29: no two rows have the same id, and the subject id of an issued      *)
(* token always names the row it was issued for: a created row gets the id *)
(* length + 1, and no step removes a row or changes the id of one.         *)
(***************************************************************************)
(* The tokens the responses carry and the tokens the clients keep. *)
IssuedTokens ==
  tokens \cup {result[p].token : p \in {q \in Procs : result[q].code = 200
                                                       /\ result[q].token # NoToken}}

(* Exactly one row has the subject id of the token, and it is the row with
   the email the token was issued for. *)
NamesItsUser(users, token) ==
  LET payload == verifyJWT(token, JWT_SECRET).payload
      rows == {i \in 1..Len(users) : users[i].id = payload.userId}
  IN /\ Cardinality(rows) = 1
     /\ \A i \in rows : users[i].email = payload.email

C29_IdsUniqueAndStable ==
  [][/\ \A i, j \in 1..Len(mockUsers') :
          i # j => mockUsers'[i].id # mockUsers'[j].id
     /\ Len(mockUsers') \in {Len(mockUsers), Len(mockUsers) + 1}
     /\ \A i \in 1..Len(mockUsers) :
          /\ mockUsers'[i].id = mockUsers[i].id
          /\ mockUsers'[i].email = mockUsers[i].email
     /\ Len(mockUsers') > Len(mockUsers)
          => mockUsers'[Len(mockUsers')].id = Len(mockUsers) + 1
     /\ \A t \in IssuedTokens' : NamesItsUser(mockUsers', t)]_vars

(* Two requests that ran at the same time have each created a row; their
   tokens name the rows 3 and 4. *)
C29_Witness ==
  /\ Len(mockUsers) = 4
  /\ \A p \in Procs : result[p].code = 200 /\ result[p].reason \in {"", "created"}
  /\ {Subject(result[p].token) : p \in Procs} = {3, 4}
  /\ \E p \in Procs : result[p].op = "register"
  /\ \E p \in Procs : result[p].op = "oauth"

(***************************************************************************)
(* AuthProvider of AuthContext.tsx.  Every function of the provider is an  *)
(* action up to its await and one action for each way the awaited request  *)
(* ends; client.pending holds the requests under way.  The worker's        *)
(* answers are drawn from small sets.                                      *)
(***************************************************************************)
MaxPending == 2

worker == <<mockUsers, now, pc, call, result, tokens, updateCount>>

(* '认证已过期' and '登录失败', the messages of checkAuth and of login. *)
S_authExpired == <<35748, 35777, 24050, 36807, 26399>>
S_loginFailed == <<30331, 24405, 22833, 36133>>

ClientUsers == {SeedUsers[1], SeedUsers[2]}
ClientTokens == {generateToken(SeedUsers[1], 0, 0), generateToken(SeedUsers[2], 0, 0)}

(* The HTTP status of a failed request; on 401 the response interceptor of
   ApiClient calls clearToken. *)
FailureStatus == {401, 500}

AfterInterceptor(storedToken, status) == IF status = 401 THEN Null ELSE storedToken

SignInFunctions == {"login", "register", "oauthLogin"}

Dispatched(action) == [client EXCEPT !.state = authReducer(client.state, action)]

(* checkAuth up to await authApi.getCurrentUser() *)
CheckAuth ==
  /\ client.stored # Null /\ client.stored # <<>>
  /\ Cardinality(client.pending) < MaxPending
  /\ client' = [Dispatched(AuthAction("AUTH_START", Null)) EXCEPT
                  !.pending = @ \cup {[fn |-> "checkAuth", token |-> client.stored]}]
  /\ UNCHANGED worker

CheckAuthSuccess ==
  /\ \E c \in client.pending, user \in ClientUsers :
       /\ c.fn = "checkAuth"
       /\ client' = [Dispatched(AuthAction("AUTH_SUCCESS", [user |-> user, token |-> c.token]))
                       EXCEPT !.pending = @ \ {c}]
  /\ UNCHANGED worker

(* catch: tokenManager.clearToken(), AUTH_FAILURE *)
CheckAuthFailure ==
  /\ \E c \in client.pending :
       /\ c.fn = "checkAuth"
       /\ client' = [Dispatched(AuthAction("AUTH_FAILURE", S_authExpired))
                       EXCEPT !.stored = Null, !.pending = @ \ {c}]
  /\ UNCHANGED worker

(* login, register and oauthLogin up to their await *)
SignIn ==
  /\ Cardinality(client.pending) < MaxPending
  /\ \E fn \in SignInFunctions :
       client' = [Dispatched(AuthAction("AUTH_START", Null)) EXCEPT
                    !.pending = @ \cup {[fn |-> fn, token |-> Null]}]
  /\ UNCHANGED worker

(* tokenManager.setToken(response.token), AUTH_SUCCESS *)
SignInSuccess ==
  /\ \E c \in client.pending, user \in ClientUsers, token \in ClientTokens :
       /\ c.fn \in SignInFunctions
       /\ client' = [Dispatched(AuthAction("AUTH_SUCCESS", [user |-> user, token |-> token]))
                       EXCEPT !.stored = token, !.pending = @ \ {c}]
  /\ UNCHANGED worker

(* catch: AUTH_FAILURE, throw *)
SignInFailure ==
  /\ \E c \in client.pending, status \in FailureStatus :
       /\ c.fn \in SignInFunctions
       /\ client' = [Dispatched(AuthAction("AUTH_FAILURE", S_loginFailed))
                       EXCEPT !.stored = AfterInterceptor(client.stored, status),
                              !.pending = @ \ {c}]
  /\ UNCHANGED worker

(* logout: tokenManager.clearToken(), AUTH_LOGOUT *)
Logout ==
  /\ client' = [Dispatched(AuthAction("AUTH_LOGOUT", Null)) EXCEPT !.stored = Null]
  /\ UNCHANGED worker

(* updateUser up to await authApi.updateProfile(userData) *)
UpdateUser ==
  /\ Cardinality(client.pending) < MaxPending
  /\ client' = [client EXCEPT !.pending = @ \cup {[fn |-> "updateUser", token |-> Null]}]
  /\ UNCHANGED worker

UpdateUserSuccess ==
  /\ \E c \in client.pending, user \in ClientUsers :
       /\ c.fn = "updateUser"
       /\ client' = [Dispatched(AuthAction("UPDATE_USER", user)) EXCEPT !.pending = @ \ {c}]
  /\ UNCHANGED worker

UpdateUserFailure ==
  /\ \E c \in client.pending, status \in FailureStatus :
       /\ c.fn = "updateUser"
       /\ client' = [client EXCEPT !.stored = AfterInterceptor(client.stored, status),
                                   !.pending = @ \ {c}]
  /\ UNCHANGED worker

(* clearError *)
ClearError ==
  /\ client.state.error # Null
  /\ client' = Dispatched(AuthAction("CLEAR_ERROR", Null))
  /\ UNCHANGED worker

(* The page is loaded again: a new ApiClient reads localStorage, the reducer
   starts from initialState, and the requests of the old page are gone. *)
Reload ==
  /\ client # LoadedPage(client.stored)
  /\ client' = LoadedPage(client.stored)
  /\ UNCHANGED worker

(* The reducer applied to any action of its type, as dispatch does. *)
Dispatch ==
  /\ \/ \E type \in {"AUTH_START", "AUTH_LOGOUT", "CLEAR_ERROR"} :
          client' = Dispatched(AuthAction(type, Null))
     \/ \E user \in ClientUsers, token \in ClientTokens \cup {<<>>} :
          client' = Dispatched(AuthAction("AUTH_SUCCESS", [user |-> user, token |-> token]))
     \/ client' = Dispatched(AuthAction("AUTH_FAILURE", S_loginFailed))
     \/ \E user \in ClientUsers : client' = Dispatched(AuthAction("UPDATE_USER", user))
  /\ UNCHANGED worker

(***************************************************************************)
(* SpecClient: the page, loaded with or without a token in localStorage.   *)
(***************************************************************************)
InitClient ==
  /\ InitWorker
  /\ \E storedToken \in {Null} \cup ClientTokens : client = LoadedPage(storedToken)

NextClient ==
  \/ CheckAuth \/ CheckAuthSuccess \/ CheckAuthFailure
  \/ SignIn \/ SignInSuccess \/ SignInFailure
  \/ Logout
  \/ UpdateUser \/ UpdateUserSuccess \/ UpdateUserFailure
  \/ ClearError
  \/ Reload
  \/ Dispatch

SpecClient == InitClient /\ [][NextClient]_vars

(***************************************************************************)
(* C30: after any sequence of the six reducer actions, isAuthenticated is  *)
(* true exactly when the token of the state is not null, and then the user *)
(* is not null; after logout and after a failed checkAuth the token of the *)
(* state and the token kept by tokenManager are both null.                 *)
(***************************************************************************)
ClientConsistent ==
  /\ client.state.isAuthenticated <=> client.state.token # Null
  /\ client.state.isAuthenticated => client.state.user # NoUser

C30_ClientStateConsistent ==
  [][/\ ClientConsistent'
     /\ (Logout \/ CheckAuthFailure)
          => (client'.state.token = Null /\ client'.stored = Null)]_vars

(* checkAuth has failed on a page that had signed in while the check was
   under way: the state holds the message of checkAuth and no token. *)
C30_Witness ==
  /\ client.state.error = S_authExpired
  /\ client.state.token = Null /\ client.stored = Null
  /\ ~client.state.isAuthenticated
  /\ \E c \in client.pending : c.fn = "updateUser"

====
